---- MODULE Spec2Model ----
(***************************************************************************)
(* The notify protocol of platform_library/net/connection.h: the sliding   *)
(* send/receive window, the ack mask, the notification queue, the          *)
(* keep-alive timer and the paced data send, as a state machine.           *)
(*                                                                         *)
(* uint32 values are kept as their two's-complement int32 reading (TLC     *)
(* integers are 32 bits wide): 2^32-1 is -1, so that +1 carries it to 0    *)
(* exactly as the machine does.  +, - are the machine's modular ones as    *)
(* long as no result leaves -2^31 .. 2^31-1 (TLC stops with an overflow    *)
(* error if one does); the unsigned comparisons are U32Lt and U32Gt.       *)
(* A 32 bit ack word is kept as the set of its set bit positions.          *)
(***************************************************************************)
EXTENDS Integers, Sequences, FiniteSets, TLC

VARIABLES
  conn,      \* conn[c]: the fields of connection c
  net,       \* the datagrams in flight, each with the peer it is addressed to
  now,       \* the host's clock, in milliseconds
  notified,  \* notified[c]: the <<sequence, delivered>> calls of handle_notify
  received,  \* received[c]: the sequences whose payload went to read_packet
  sent,      \* sent[c]: the sequences of the data packets written
  ka,        \* ka[c]: what check_timeout did since the keep-alive timer started
  last,      \* the last operation, its result and what it emitted
  used,      \* the data sends and the datagram reads of the run so far
  build      \* build choices: whether a failed assert stops the process

vars == <<conn, net, now, notified, received, sent, ka, last, used, build>>

----------------------------------------------------------------------------
(* connection_constants, net_packet_type, default_ping_constants            *)

max_packet_window_size_shift == 5
max_packet_window_size == 2 ^ max_packet_window_size_shift
packet_window_mask == max_packet_window_size - 1
max_ack_mask_size == 2 ^ (max_packet_window_size_shift - 5)
max_ack_byte_count == max_ack_mask_size * 4
sequence_number_bit_size == 11
sequence_number_window_size == 2 ^ sequence_number_bit_size
ack_sequence_number_bit_size == 10
ack_sequence_number_window_size == 2 ^ ack_sequence_number_bit_size

data_packet == 0
ping_packet == 1
ack_packet == 2
invalid_packet_type == 3

(* the retry count at half of what line 115 gives                           *)
default_ping_retry_count_halved == 10 \div 2

default_ping_timeout == 5000
default_ping_retry_count == 10
default_fixed_send_period == 96
max_send_delay_credit == 1000

connection_states ==
  { "not_connected", "awaiting_challenge_response", "sending_punch_packets",
    "computing_puzzle_solution", "awaiting_connect_response",
    "connect_timed_out", "connect_rejected", "connected", "disconnected",
    "timed_out" }

----------------------------------------------------------------------------
(* uint32 comparison on the int32 reading                                   *)

U32Lt(a, b) == IF (a >= 0) = (b >= 0) THEN a < b ELSE a >= 0

U32Gt(a, b) == U32Lt(b, a)

U32Ge(a, b) == ~U32Lt(a, b)

(* x & (2^bits - 1): what write_integer(x, bits) puts on the wire           *)
LowBits(x, bits) == x % (2 ^ bits)

(* the set bits of a word below bit n                                       *)
MaskBits(word, n) == { i \in word : i < n }

Min(a, b) == IF a < b THEN a ELSE b

----------------------------------------------------------------------------
(* Peers and the values a run starts from                                   *)

Peers == {1, 2}

Other(c) == IF c = 1 THEN 2 ELSE 1

(* the shift filling bit 0 with the packet's kind instead of or-ing it in    *)
ShiftAckMaskFilling(mask, ack_mask_shift, pk_packet_type) ==
  { i + ack_mask_shift : i \in { j \in mask : j + ack_mask_shift <= 31 /\ j + ack_mask_shift > 0 } }
    \cup (IF pk_packet_type = data_packet THEN {0} ELSE {})

(* the ack word shifted up by the packet difference; bit 0 is the packet    *)
(* itself, set for a data packet only                                       *)
ShiftAckMask(mask, ack_mask_shift, pk_packet_type) ==
  { i + ack_mask_shift : i \in { j \in mask : j + ack_mask_shift <= 31 } }
    \cup (IF pk_packet_type = data_packet THEN {0} ELSE {})

(* the reconstruction without its wrap-around step                          *)
ReconstructSeqSameEpoch(pk_sequence_number, last_seq_recvd) ==
  pk_sequence_number
    + (last_seq_recvd - LowBits(last_seq_recvd, sequence_number_bit_size))

(* lines 388-391                                                            *)
ReconstructSeq(pk_sequence_number, last_seq_recvd) ==
  LET r == pk_sequence_number
             + (last_seq_recvd - LowBits(last_seq_recvd, sequence_number_bit_size))
  IN  IF U32Lt(r, last_seq_recvd) THEN r + sequence_number_window_size ELSE r

(* line 394: the sequence is more than a window ahead                       *)
SeqOutsideWindow(pk_sequence_number, last_seq_recvd) ==
  U32Gt(pk_sequence_number - last_seq_recvd, max_packet_window_size - 1)

(* lines 401-405                                                            *)
ReconstructAck(pk_highest_ack, highest_acked_seq) ==
  LET r == pk_highest_ack
             + (highest_acked_seq
                  - LowBits(highest_acked_seq, ack_sequence_number_bit_size))
  IN  IF U32Lt(r, highest_acked_seq)
        THEN r + ack_sequence_number_window_size ELSE r

(* line 407: the ack is for a packet not sent yet                           *)
AckOutsideWindow(pk_highest_ack, last_send_seq) ==
  U32Gt(pk_highest_ack, last_send_seq)

(* the window test with > for >=                                            *)
window_full_late(cn) ==
  U32Gt(cn.last_send_seq - cn.highest_acked_seq, max_packet_window_size - 2)

(* the window test as a gate on the lifecycle state too                      *)
window_full_unless_connected(cn) ==
  cn.connection_state # "connected"
    \/ U32Ge(cn.last_send_seq - cn.highest_acked_seq, max_packet_window_size - 2)

(* the window test letting a sender run past the window                     *)
window_full_past_window(cn) ==
  U32Ge(cn.last_send_seq - cn.highest_acked_seq, max_packet_window_size + 1)

(* lines 664-669                                                            *)
window_full(cn) ==
  U32Ge(cn.last_send_seq - cn.highest_acked_seq, max_packet_window_size - 2)

(* x >> k of a uint32                                                       *)
U32Shr(x, k) == IF x >= 0 THEN x \div (2 ^ k) ELSE (2 ^ (32 - k)) + (x \div (2 ^ k))

(* line 303                                                                 *)
AckByteCount(cn) == U32Shr(cn.last_seq_recvd - cn.last_recv_ack_ack + 7, 3)

(* symmetric_cipher::setup_counter arguments, lines 293 and 416             *)
Counter(a, b, packet_type) == <<a, b, packet_type, 0>>

----------------------------------------------------------------------------
(* Writing a packet                                                         *)

(* lines 241-246                                                            *)
get_next_send_sequence(cn) == cn.last_send_seq + 1

(* write_packet_header that counts every packet, not the data packets only  *)
write_packet_header_counting_all(cn, packet_type) ==
  LET ack_byte_count == AckByteCount(cn)
      failed == IF window_full(cn) /\ packet_type = data_packet
                  THEN "assert_window"
                  ELSE IF ack_byte_count > max_ack_byte_count
                         THEN "assert_ack_bytes" ELSE "no"
      seq == cn.last_send_seq + 1
      hdr == [ type |-> packet_type,
               seq  |-> LowBits(seq, sequence_number_bit_size),
               flag |-> TRUE,
               ack  |-> LowBits(cn.last_seq_recvd, ack_sequence_number_bit_size),
               pad  |-> 0,
               abc  |-> LowBits(ack_byte_count, 3),
               mask |-> MaskBits(cn.ack_mask, 8 * Min(ack_byte_count, 4)) ]
      after == IF packet_type = data_packet
                 THEN [cn EXCEPT
                         !.last_send_seq = seq,
                         !.last_seq_recvd_at_send =
                            (LowBits(seq, max_packet_window_size_shift)
                               :> cn.last_seq_recvd) @@ @ ]
                 ELSE [cn EXCEPT !.last_send_seq = seq]
  IN  [ cn |-> after, hdr |-> hdr, failed |-> failed ]

(* write_packet_header: the header of the packet and the connection after.  *)
(* failed is the assertion that failed, if one did.                         *)
write_packet_header(cn, packet_type) ==
  LET ack_byte_count == AckByteCount(cn)
      failed == IF window_full(cn) /\ packet_type = data_packet
                  THEN "assert_window"
                  ELSE IF ack_byte_count > max_ack_byte_count
                         THEN "assert_ack_bytes" ELSE "no"
      seq == IF packet_type = data_packet
               THEN cn.last_send_seq + 1 ELSE cn.last_send_seq
      hdr == [ type |-> packet_type,
               seq  |-> LowBits(seq, sequence_number_bit_size),
               flag |-> TRUE,
               ack  |-> LowBits(cn.last_seq_recvd, ack_sequence_number_bit_size),
               pad  |-> 0,
               abc  |-> LowBits(ack_byte_count, 3),
               mask |-> MaskBits(cn.ack_mask, 8 * Min(ack_byte_count, 4)) ]
      after == IF packet_type = data_packet
                 THEN [cn EXCEPT
                         !.last_send_seq = seq,
                         !.last_seq_recvd_at_send =
                            (LowBits(seq, max_packet_window_size_shift)
                               :> cn.last_seq_recvd) @@ @ ]
                 ELSE cn
  IN  [ cn |-> after, hdr |-> hdr, failed |-> failed ]

(* write_raw_packet: header, notify queue entry of a data packet, cipher    *)
(* counter.  A queue whose head pointer the constructor left wild is        *)
(* dereferenced by the first data packet.                                   *)
write_raw_packet(cn, packet_type, traps) ==
  LET w == write_packet_header(cn, packet_type)
      crash == IF w.failed # "no" /\ traps THEN w.failed
               ELSE IF packet_type = data_packet /\ ~cn.queue_null
                      THEN "wild_pointer" ELSE "no"
      queued == IF packet_type = data_packet
                  THEN [w.cn EXCEPT !.notify_queue = Append(@, w.cn.last_send_seq)]
                  ELSE w.cn
      pkt == w.hdr @@
             [ ctr |-> IF cn.cipher
                         THEN Counter(w.cn.last_send_seq, w.cn.last_seq_recvd, packet_type)
                         ELSE << >>,
               mac |-> TRUE ]
  IN  IF crash # "no"
        THEN [ cn |-> [cn EXCEPT !.crashed = crash], pkt |-> pkt ]
        ELSE [ cn |-> queued, pkt |-> pkt ]

----------------------------------------------------------------------------
(* Reading a packet                                                         *)

(* lines 379-426: why the header is dropped, or "accept"                    *)
RejectReason(cn, p) ==
  IF p.pad # 0 THEN "pad"
  ELSE LET pk_sequence_number == ReconstructSeq(p.seq, cn.last_seq_recvd)
           pk_highest_ack == ReconstructAck(p.ack, cn.highest_acked_seq)
       IN  IF SeqOutsideWindow(pk_sequence_number, cn.last_seq_recvd)
             THEN "seq_window"
           ELSE IF AckOutsideWindow(pk_highest_ack, cn.last_send_seq)
             THEN "ack_window"
           ELSE IF cn.cipher
                   /\ ~(p.mac /\ p.ctr = Counter(pk_sequence_number,
                                                 pk_highest_ack, p.type))
             THEN "crypto"
           ELSE IF p.abc > max_ack_byte_count \/ p.type >= invalid_packet_type
             THEN "malformed"
           ELSE "accept"

(* the notify index without its + 1                                         *)
notify_index_from_acked(highest_acked_seq, i) == highest_acked_seq + i

(* line 484                                                                 *)
notify_index(highest_acked_seq, i) == highest_acked_seq + i + 1

(* the notify loop reading bit i for the i-th sequence after                *)
(* highest_acked_seq, not the distance down from pk_highest_ack             *)
NotifyLoopFromOldest(cn, pk_highest_ack, pk_ack_mask, unwritten) ==
  LET notify_count == pk_highest_ack - cn.highest_acked_seq
      n == IF U32Gt(notify_count, Len(cn.notify_queue))
             THEN Len(cn.notify_queue) ELSE notify_count
      success(i) == i \in pk_ack_mask
      hits == { i \in 0..(n - 1) : success(i) }
      top == CHOOSE i \in hits : \A j \in hits : j <= i
  IN  [ notes |-> [ j \in 1..n |-> <<notify_index(cn.highest_acked_seq, j - 1),
                                      success(j - 1)>> ],
        empty |-> U32Gt(notify_count, Len(cn.notify_queue)),
        last_recv_ack_ack |->
          IF hits = {} THEN cn.last_recv_ack_ack
          ELSE cn.last_seq_recvd_at_send[
                 LowBits(notify_index(cn.highest_acked_seq, top),
                         max_packet_window_size_shift)],
        notify_queue |-> SubSeq(cn.notify_queue, n + 1, Len(cn.notify_queue)) ]

(* lines 481-505: the notify loop over the entries the queue holds.         *)
(* unwritten is what a word of pk_ack_mask that was never read from the     *)
(* packet happens to hold.                                                  *)
NotifyLoop(cn, pk_highest_ack, pk_ack_mask, unwritten) ==
  LET notify_count == pk_highest_ack - cn.highest_acked_seq
      n == IF U32Gt(notify_count, Len(cn.notify_queue))
             THEN Len(cn.notify_queue) ELSE notify_count
      success(i) ==
        LET d == pk_highest_ack - notify_index(cn.highest_acked_seq, i)
        IN  IF U32Shr(d, 5) = 0 THEN LowBits(d, 5) \in pk_ack_mask
                                ELSE LowBits(d, 5) \in unwritten
      hits == { i \in 0..(n - 1) : success(i) }
      top == CHOOSE i \in hits : \A j \in hits : j <= i
  IN  [ notes |-> [ j \in 1..n |-> <<notify_index(cn.highest_acked_seq, j - 1),
                                      success(j - 1)>> ],
        empty |-> U32Gt(notify_count, Len(cn.notify_queue)),
        last_recv_ack_ack |->
          IF hits = {} THEN cn.last_recv_ack_ack
          ELSE cn.last_seq_recvd_at_send[
                 LowBits(notify_index(cn.highest_acked_seq, top),
                         max_packet_window_size_shift)],
        notify_queue |-> SubSeq(cn.notify_queue, n + 1, Len(cn.notify_queue)) ]

(* the clamp letting last_recv_ack_ack fall two windows behind              *)
ClampAckAckLate(last_recv_ack_ack, pk_sequence_number) ==
  IF U32Gt(pk_sequence_number - last_recv_ack_ack, 2 * max_packet_window_size)
    THEN pk_sequence_number - 2 * max_packet_window_size
    ELSE last_recv_ack_ack

(* lines 507-508: the other side knows more about its window than we do     *)
ClampAckAck(last_recv_ack_ack, pk_sequence_number) ==
  IF U32Gt(pk_sequence_number - last_recv_ack_ack, max_packet_window_size)
    THEN pk_sequence_number - max_packet_window_size
    ELSE last_recv_ack_ack

(* the ack policy without its half-window test                              *)
NeedsAckForPingOnly(pk_packet_type, pk_sequence_number, last_recv_ack_ack) ==
  pk_packet_type = ping_packet

(* line 520                                                                 *)
NeedsAck(pk_packet_type, pk_sequence_number, last_recv_ack_ack) ==
  pk_packet_type = ping_packet
    \/ U32Gt(pk_sequence_number - last_recv_ack_ack, max_packet_window_size \div 2)

(* the value returned without the test against the previous sequence        *)
HeaderResultAnyData(prev_last_sequence, pk_sequence_number, pk_packet_type) ==
  pk_packet_type = data_packet

(* line 528                                                                 *)
HeaderResult(prev_last_sequence, pk_sequence_number, pk_packet_type) ==
  prev_last_sequence # pk_sequence_number /\ pk_packet_type = data_packet

(* keep_alive that zeroes the ping count and leaves the timer running      *)
keep_alive_timer_kept(cn) == [cn EXCEPT !.ping_send_count = 0]

(* lines 603-608                                                            *)
keep_alive(cn) == [cn EXCEPT !.last_ping_send_time = 0, !.ping_send_count = 0]

(* the two sequence assignments of lines 510 and 518 exchanged              *)
AcceptHeaderSwapped(shifted, loop, pk_sequence_number, pk_highest_ack) ==
  [keep_alive(shifted) EXCEPT
     !.notify_queue = loop.notify_queue,
     !.last_recv_ack_ack = ClampAckAck(loop.last_recv_ack_ack, pk_sequence_number),
     !.highest_acked_seq = pk_sequence_number,
     !.last_seq_recvd = pk_highest_ack]

(* the accepted header leaving highest_acked_seq where it was               *)
AcceptHeaderAckForgotten(shifted, loop, pk_sequence_number, pk_highest_ack) ==
  [keep_alive(shifted) EXCEPT
     !.notify_queue = loop.notify_queue,
     !.last_recv_ack_ack = ClampAckAck(loop.last_recv_ack_ack, pk_sequence_number),
     !.last_seq_recvd = pk_sequence_number]

(* the clamp applied only when the notify loop left last_recv_ack_ack alone *)
AcceptHeaderClampWhenIdle(shifted, loop, pk_sequence_number, pk_highest_ack) ==
  [keep_alive(shifted) EXCEPT
     !.notify_queue = loop.notify_queue,
     !.last_recv_ack_ack =
        IF loop.last_recv_ack_ack = shifted.last_recv_ack_ack
          THEN ClampAckAck(loop.last_recv_ack_ack, pk_sequence_number)
          ELSE loop.last_recv_ack_ack,
     !.highest_acked_seq = pk_highest_ack,
     !.last_seq_recvd = pk_sequence_number]

(* lines 507-518: the fields an accepted header leaves behind               *)
AcceptHeader(shifted, loop, pk_sequence_number, pk_highest_ack) ==
  [keep_alive(shifted) EXCEPT
     !.notify_queue = loop.notify_queue,
     !.last_recv_ack_ack = ClampAckAck(loop.last_recv_ack_ack, pk_sequence_number),
     !.highest_acked_seq = pk_highest_ack,
     !.last_seq_recvd = pk_sequence_number]

(* an early return that has already called keep_alive                      *)
DropHeaderKeptAlive(cn, why, pk_sequence_number) ==
  [ cn |-> keep_alive(cn), why |-> why, notes |-> << >>, ack |-> FALSE,
    ret |-> FALSE, seq |-> pk_sequence_number ]

(* the early returns of lines 380-426                                       *)
DropHeader(cn, why, pk_sequence_number) ==
  [ cn |-> cn, why |-> why, notes |-> << >>, ack |-> FALSE, ret |-> FALSE,
    seq |-> pk_sequence_number ]

(* read_packet_header up to the call of send_ack_packet: the connection     *)
(* after, the notifications made, whether an ack packet is to be sent and   *)
(* the value returned.                                                      *)
read_packet_header(cn, p, unwritten, traps) ==
  LET why == RejectReason(cn, p)
      pk_sequence_number == ReconstructSeq(p.seq, cn.last_seq_recvd)
      pk_highest_ack == ReconstructAck(p.ack, cn.highest_acked_seq)
      pk_ack_mask == IF p.abc = 0 THEN unwritten ELSE MaskBits(p.mask, 8 * p.abc)
      shifted == [cn EXCEPT !.ack_mask =
                     ShiftAckMask(@, pk_sequence_number - cn.last_seq_recvd, p.type)]
      loop == NotifyLoop(shifted, pk_highest_ack, pk_ack_mask, unwritten)
      after == AcceptHeader(shifted, loop, pk_sequence_number, pk_highest_ack)
      none == DropHeader(cn, why, pk_sequence_number)
  IN  IF p.pad # 0 THEN none
      ELSE IF ~p.flag /\ traps
        THEN [none EXCEPT !.cn = [cn EXCEPT !.crashed = "assert_flag"],
                          !.why = "crash"]
      ELSE IF why # "accept" THEN none
      ELSE IF loop.empty
        THEN [none EXCEPT !.cn = [cn EXCEPT !.crashed = "assert_note"],
                          !.why = "crash", !.notes = loop.notes]
      ELSE [ cn |-> after,
             why |-> "accept",
             notes |-> loop.notes,
             ack |-> NeedsAck(p.type, pk_sequence_number, after.last_recv_ack_ack),
             ret |-> HeaderResult(cn.last_seq_recvd, pk_sequence_number, p.type),
             seq |-> pk_sequence_number ]

----------------------------------------------------------------------------
(* Construction and set-up                                                  *)

(* connection::connection.  The constructor does not set the notify queue   *)
(* pointers: queue_null says whether the head happens to be NULL.  The      *)
(* slots of _last_seq_recvd_at_send hold nothing until a data packet        *)
(* writes them.                                                             *)
NewConnection(initial_send_seq, queue_null) ==
  [ initial_send_seq |-> initial_send_seq,
    initial_recv_seq |-> 0,
    last_send_seq |-> initial_send_seq,
    highest_acked_seq |-> initial_send_seq,
    last_seq_recvd |-> 0,
    ack_mask |-> {},
    last_recv_ack_ack |-> 0,
    last_seq_recvd_at_send |-> << >>,
    notify_queue |-> << >>,
    queue_null |-> queue_null,
    ping_send_count |-> 0,
    last_ping_send_time |-> 0,
    ping_timeout |-> default_ping_timeout,
    ping_retry_count |-> default_ping_retry_count,
    last_update_time |-> 0,
    send_delay_credit |-> 0,
    current_packet_send_period |-> default_fixed_send_period,
    simulated_packet_loss |-> FALSE,
    cipher |-> FALSE,
    connection_state |-> "not_connected",
    crashed |-> "no" ]

(* lines 619-622                                                            *)
set_initial_recv_sequence(cn, sequence) ==
  [cn EXCEPT !.initial_recv_seq = sequence, !.last_seq_recvd = sequence,
             !.last_recv_ack_ack = sequence]

(* lines 769-770                                                            *)
set_ping_timeouts(cn, time_per_ping, ping_retry_count) ==
  [cn EXCEPT !.ping_retry_count = ping_retry_count, !.ping_timeout = time_per_ping]

(* line 883                                                                 *)
set_connection_state(cn, state) == [cn EXCEPT !.connection_state = state]

(* lines 762-765                                                            *)
set_symmetric_cipher(cn, the_cipher) == [cn EXCEPT !.cipher = the_cipher]

(* lines 773-774                                                            *)
set_simulated_net_params(cn, packet_loss) ==
  [cn EXCEPT !.simulated_packet_loss = packet_loss]

(* a connection as the host leaves it when the handshake has completed      *)
Established(initial_send_seq, initial_recv_seq, queue_null, the_cipher, time_per_ping, ping_retry_count) ==
  set_connection_state(
    set_symmetric_cipher(
      set_ping_timeouts(
        set_initial_recv_sequence(NewConnection(initial_send_seq, queue_null),
                                  initial_recv_seq),
        time_per_ping, ping_retry_count),
      the_cipher),
    "connected")

(* the host drives a connection until it has timed out or the process died  *)
Alive(c) == conn[c].crashed = "no" /\ ~ka[c].reported

KaIdle == [ start |-> 0, dense |-> TRUE, checked |-> 0, pings |-> << >>,
            reported |-> FALSE ]

NoOp == [ op |-> "none", c |-> 0, ret |-> "", val |-> FALSE, out |-> {},
          notes |-> << >>, force |-> FALSE ]

----------------------------------------------------------------------------
(* The operations of a connection on its fields                             *)

(* check_packet_send with _last_update_time set before the window test      *)
check_packet_send_stamped(cn, force, has_data, current_time, traps) ==
  LET delay == cn.current_packet_send_period
      early == ~force
                 /\ current_time - cn.last_update_time + cn.send_delay_credit < delay
      credited ==
        IF force THEN [cn EXCEPT !.last_update_time = current_time]
        ELSE [cn EXCEPT !.send_delay_credit =
                Min(current_time - (cn.last_update_time + delay - @),
                    max_send_delay_credit),
                        !.last_update_time = current_time]
      w == write_raw_packet(credited, data_packet, traps)
  IN  IF early THEN [ cn |-> cn, ret |-> "early", pkt |-> w.pkt ]
      ELSE IF window_full(credited) \/ ~has_data
        THEN [ cn |-> credited, ret |-> "blocked", pkt |-> w.pkt ]
      ELSE IF w.cn.crashed # "no"
        THEN [ cn |-> w.cn, ret |-> "crash", pkt |-> w.pkt ]
      ELSE [ cn |-> w.cn, ret |-> "sent", pkt |-> w.pkt ]

(* check_packet_send(force, current_time); has_data is what                 *)
(* is_data_to_transmit() answers.  ret names the return taken.              *)
check_packet_send(cn, force, has_data, current_time, traps) ==
  LET delay == cn.current_packet_send_period
      early == ~force
                 /\ current_time - cn.last_update_time + cn.send_delay_credit < delay
      credited ==
        IF force THEN cn
        ELSE [cn EXCEPT !.send_delay_credit =
                Min(current_time - (cn.last_update_time + delay - @),
                    max_send_delay_credit)]
      w == write_raw_packet([credited EXCEPT !.last_update_time = current_time],
                            data_packet, traps)
  IN  IF early THEN [ cn |-> cn, ret |-> "early", pkt |-> w.pkt ]
      ELSE IF window_full(credited) \/ ~has_data
        THEN [ cn |-> credited, ret |-> "blocked", pkt |-> w.pkt ]
      ELSE IF w.cn.crashed # "no"
        THEN [ cn |-> w.cn, ret |-> "crash", pkt |-> w.pkt ]
      ELSE [ cn |-> w.cn, ret |-> "sent", pkt |-> w.pkt ]

(* the retry test with > for >=                                             *)
RetriesUsedLate(cn) == cn.ping_send_count > cn.ping_retry_count

(* line 827                                                                 *)
RetriesUsed(cn) == cn.ping_send_count >= cn.ping_retry_count

(* check_timeout with the ping count left where it was                      *)
check_timeout_uncounted(cn, current_time, traps) ==
  LET started == IF cn.last_ping_send_time = 0
                   THEN [cn EXCEPT !.last_ping_send_time = current_time] ELSE cn
      expired == current_time - started.last_ping_send_time > started.ping_timeout
      w == write_raw_packet([started EXCEPT !.last_ping_send_time = current_time],
                            ping_packet, traps)
  IN  IF ~expired THEN [ cn |-> started, ret |-> "waiting", pkt |-> w.pkt ]
      ELSE IF RetriesUsed(started)
        THEN [ cn |-> started, ret |-> "timed_out", pkt |-> w.pkt ]
      ELSE IF w.cn.crashed # "no"
        THEN [ cn |-> w.cn, ret |-> "crash", pkt |-> w.pkt ]
      ELSE [ cn |-> w.cn, ret |-> "ping", pkt |-> w.pkt ]

(* check_timeout(current_time)                                              *)
check_timeout(cn, current_time, traps) ==
  LET started == IF cn.last_ping_send_time = 0
                   THEN [cn EXCEPT !.last_ping_send_time = current_time] ELSE cn
      expired == current_time - started.last_ping_send_time > started.ping_timeout
      w == write_raw_packet([started EXCEPT !.last_ping_send_time = current_time,
                                            !.ping_send_count = @ + 1],
                            ping_packet, traps)
  IN  IF ~expired THEN [ cn |-> started, ret |-> "waiting", pkt |-> w.pkt ]
      ELSE IF RetriesUsed(started)
        THEN [ cn |-> started, ret |-> "timed_out", pkt |-> w.pkt ]
      ELSE IF w.cn.crashed # "no"
        THEN [ cn |-> w.cn, ret |-> "crash", pkt |-> w.pkt ]
      ELSE [ cn |-> w.cn, ret |-> "ping", pkt |-> w.pkt ]

(* read_raw_packet past the simulated receive loss: the header, the ack     *)
(* packet it may send, and whether read_packet gets the payload             *)
read_raw_packet(cn, p, unwritten, traps) ==
  LET r == read_packet_header(cn, p, unwritten, traps)
      w == write_raw_packet(r.cn, ack_packet, traps)
      after == IF r.ack THEN w.cn ELSE r.cn
  IN  [ cn |-> after,
        ret |-> IF after.crashed = "no" THEN r.why ELSE "crash",
        notes |-> r.notes,
        handed |-> r.ret /\ after.crashed = "no",
        seq |-> r.seq,
        out |-> IF r.ack /\ w.cn.crashed = "no" THEN {w.pkt} ELSE {} ]

(* the connection after n forced data sends at time current_time            *)
RECURSIVE AfterSends(_, _, _)
AfterSends(cn, n, current_time) ==
  LET next == check_packet_send(cn, TRUE, TRUE, current_time, FALSE).cn
  IN  IF n = 0 THEN cn
      ELSE IF next.crashed = "no" THEN AfterSends(next, n - 1, current_time)
      ELSE next

(* the sequences of those n data packets, in order                          *)
SentBy(cn, n) == [ i \in 1..n |-> cn.last_send_seq + i ]

----------------------------------------------------------------------------
(* The operations as steps of connection c at the time now.  Each fixes     *)
(* every variable but the wire, the clock and the run's counters;           *)
(* last'.out holds the packets handed to send_packet.                       *)

CheckPacketSend(c, force, has_data) ==
  /\ Alive(c)
  /\ \E r \in { check_packet_send(conn[c], force, has_data, now, build.traps) } :
       /\ conn' = [conn EXCEPT ![c] = r.cn]
       /\ sent' = IF r.ret = "sent"
                    THEN [sent EXCEPT ![c] = Append(@, r.cn.last_send_seq)]
                    ELSE sent
       /\ last' = [NoOp EXCEPT !.op = "check_packet_send", !.c = c, !.ret = r.ret,
                               !.force = force,
                               !.out = IF r.ret = "sent" THEN {r.pkt} ELSE {}]
  /\ UNCHANGED <<notified, received, ka>>

CheckTimeout(c) ==
  /\ Alive(c)
  /\ \E r \in { check_timeout(conn[c], now, build.traps) } :
       LET k0 == IF conn[c].last_ping_send_time = 0
                   THEN [KaIdle EXCEPT !.start = now] ELSE ka[c]
       IN  /\ conn' = [conn EXCEPT ![c] = r.cn]
           /\ ka' = [ka EXCEPT ![c] =
                       [k0 EXCEPT !.checked = now,
                                  !.pings = IF r.ret = "ping" THEN Append(@, now) ELSE @,
                                  !.reported = (r.ret = "timed_out")]]
           /\ last' = [NoOp EXCEPT !.op = "check_timeout", !.c = c, !.ret = r.ret,
                                   !.val = (r.ret = "timed_out"),
                                   !.out = IF r.ret = "ping" THEN {r.pkt} ELSE {}]
  /\ UNCHANGED <<notified, received, sent>>

ReadRawPacket(c, p, unwritten) ==
  /\ Alive(c)
  /\ \E r \in { read_raw_packet(conn[c], p, unwritten, build.traps) } :
       /\ conn' = [conn EXCEPT ![c] = r.cn]
       /\ notified' = [notified EXCEPT ![c] = @ \o r.notes]
       /\ received' = IF r.handed THEN [received EXCEPT ![c] = Append(@, r.seq)]
                                  ELSE received
       /\ ka' = IF r.ret = "accept" THEN [ka EXCEPT ![c] = KaIdle] ELSE ka
       /\ last' = [NoOp EXCEPT !.op = "read_raw_packet", !.c = c, !.ret = r.ret,
                               !.val = r.handed, !.out = r.out, !.notes = r.notes]
  /\ UNCHANGED sent

(* the clock moves on by a millisecond; ka notes a millisecond in which     *)
(* check_timeout was not called                                             *)
ClockTick ==
  /\ now' = now + 1
  /\ ka' = [ c \in Peers |->
              [ka[c] EXCEPT !.dense = @ /\ (ka[c].start = 0 \/ ka[c].checked = now)] ]
  /\ last' = [NoOp EXCEPT !.op = "tick"]
  /\ UNCHANGED <<conn, notified, received, sent>>

----------------------------------------------------------------------------
(* SpecHdr: one connection, the host sending and the wire handing it        *)
(* headers of every shape, whoever wrote them.                              *)

MaxSend == 2
MaxReads == 2

(* the connections a run starts from: initial sequences s and r, k data     *)
(* packets already sent, whether the queue head happened to be NULL, a      *)
(* cipher, trapping asserts, a ping already out, the time                   *)
HdrStarts ==
  { [ s |->  100, r |->  500, k |->  0, q |-> TRUE,  e |-> FALSE, t |-> TRUE,  pinged |-> FALSE, at |-> 1 ],
    [ s |->  100, r |->  500, k |->  0, q |-> FALSE, e |-> FALSE, t |-> TRUE,  pinged |-> FALSE, at |-> 1 ],
    [ s |->  100, r |-> 2040, k |->  5, q |-> TRUE,  e |-> TRUE,  t |-> TRUE,  pinged |-> TRUE,  at |-> 3 ],
    [ s |-> 1020, r |->  -10, k |-> 29, q |-> TRUE,  e |-> FALSE, t |-> FALSE, pinged |-> FALSE, at |-> 1 ],
    [ s |->  500, r |->  100, k |-> 30, q |-> TRUE,  e |-> FALSE, t |-> TRUE,  pinged |-> TRUE,  at |-> 200 ],
    [ s |->   -3, r |->  100, k |->  2, q |-> TRUE,  e |-> FALSE, t |-> TRUE,  pinged |-> FALSE, at |-> 1 ],
    [ s |->  -20, r |-> 1000, k |-> 29, q |-> TRUE,  e |-> FALSE, t |-> FALSE, pinged |-> FALSE, at |-> 200 ] }

(* a connection that has called check_timeout twice, a ping interval apart  *)
Pinged(cn) ==
  check_timeout(check_timeout(cn, 1, FALSE).cn, cn.ping_timeout + 2, FALSE).cn

StartOf(h) ==
  LET fresh == Established(h.s, h.r, h.q, h.e, 1, 2)
      sender == AfterSends(fresh, h.k, 1)
  IN  IF h.pinged THEN Pinged(sender) ELSE sender

(* a header as a peer at sequence seq, acknowledging ack, would write it    *)
MkHeader(packet_type, seq, ack, mask, abc) ==
  [ type |-> packet_type,
    seq  |-> LowBits(seq, sequence_number_bit_size),
    flag |-> TRUE,
    ack  |-> LowBits(ack, ack_sequence_number_bit_size),
    pad  |-> 0,
    abc  |-> abc,
    mask |-> mask,
    ctr  |-> Counter(seq, ack, packet_type),
    mac  |-> TRUE ]

(* the headers the wire may hold for a connection: well formed ones in and  *)
(* beyond both windows, and ones broken in each field                       *)
Headers(cn) ==
  LET r == cn.last_seq_recvd
      h == cn.highest_acked_seq
      d == cn.last_send_seq - cn.highest_acked_seq
      one == Min(1, d)
      good == MkHeader(data_packet, r + 1, h + d, 0..31, 4)
  IN  { good,
        MkHeader(data_packet, r + 1, h + one, {0, 2}, 1),
        MkHeader(data_packet, r + 31, h, {}, 4),
        MkHeader(data_packet, r, h + d, {0, 2}, 4),
        MkHeader(data_packet, r + 2, h + d, {}, 0),
        MkHeader(ping_packet, r, h, {}, 0),
        MkHeader(ping_packet, r + 1, h + d, {}, 4),
        MkHeader(ack_packet, r + 1, h + one, 0..31, 4),
        MkHeader(ack_packet, r, h + d, 0..31, 4),
        MkHeader(data_packet, r + 32, h + d, 0..31, 4),
        MkHeader(data_packet, r - 1, h + d, 0..31, 4),
        MkHeader(data_packet, r + 1, h + d + 1, 0..31, 4),
        MkHeader(ping_packet, r + 1, h - 1, 0..31, 4),
        MkHeader(invalid_packet_type, r + 1, h + d, 0..31, 4),
        MkHeader(data_packet, r + 1, h + d, 0..31, 5),
        [good EXCEPT !.pad = 1],
        [good EXCEPT !.flag = FALSE],
        [good EXCEPT !.mac = FALSE],
        [good EXCEPT !.ctr = Counter(r + 1, h, ping_packet)] }

(* what pk_ack_mask may hold where the packet wrote nothing: asked for      *)
(* when no ack byte came, or the notify loop runs past the first word       *)
Unwritten(cn, p) ==
  IF p.abc = 0
       \/ U32Gt(ReconstructAck(p.ack, cn.highest_acked_seq) - cn.highest_acked_seq,
                max_packet_window_size)
    THEN { {}, 0..31 } ELSE { {} }

HdrInit ==
  \E h \in HdrStarts :
    /\ conn = [ c \in Peers |-> IF c = 1 THEN StartOf(h)
                                         ELSE Established(h.r, h.s, TRUE, h.e, 1, 2) ]
    /\ net = {}
    /\ now = h.at
    /\ notified = [ c \in Peers |-> << >> ]
    /\ received = [ c \in Peers |-> << >> ]
    /\ sent = [ c \in Peers |->
                IF c = 1 /\ StartOf(h).crashed = "no"
                  THEN SentBy(Established(h.s, h.r, h.q, h.e, 1, 2), h.k) ELSE << >> ]
    /\ ka = [ c \in Peers |-> KaIdle ]
    /\ last = NoOp
    /\ used = [ sends |-> 0, reads |-> 0 ]
    /\ build = [ traps |-> h.t ]

HdrSend ==
  /\ used.sends < MaxSend
  /\ \E force \in BOOLEAN, has_data \in BOOLEAN : CheckPacketSend(1, force, has_data)
  /\ used' = [used EXCEPT !.sends = @ + 1]
  /\ UNCHANGED <<net, now, build>>

HdrRead ==
  /\ used.reads < MaxReads
  /\ \E p \in Headers(conn[1]) :
       \E unwritten \in Unwritten(conn[1], p) : ReadRawPacket(1, p, unwritten)
  /\ used' = [used EXCEPT !.reads = @ + 1]
  /\ UNCHANGED <<net, now, build>>

HdrNext == HdrSend \/ HdrRead

SpecHdr == HdrInit /\ [][HdrNext]_vars

----------------------------------------------------------------------------
(* Properties of SpecHdr                                                    *)

(* a is not after b in sequence order: uint32 sequences compare by their    *)
(* difference, as window_full and the window tests of the code do           *)
SeqLe(a, b) == b - a >= 0

Outstanding(cn) == cn.last_send_seq - cn.highest_acked_seq

(* C1: the notifications a connection has made are, in order and without a  *)
(* gap or a repeat, the sequences of the first data packets it wrote, and   *)
(* those sequences go up by one.                                            *)
NotifiedInSendOrder ==
  \A c \in Peers :
    /\ Len(notified[c]) <= Len(sent[c])
    /\ \A i \in 1..Len(notified[c]) : notified[c][i][1] = sent[c][i]
    /\ \A i \in 2..Len(sent[c]) : sent[c][i] = sent[c][i - 1] + 1

(* C1 happens: two accepted headers have notified, the second after the     *)
(* first, packets as delivered and as dropped                               *)
NotifiedTwiceWitness ==
  /\ used.reads = 2
  /\ last.op = "read_raw_packet"
  /\ Len(last.notes) >= 1
  /\ Len(notified[1]) > Len(last.notes)
  /\ \E i, j \in 1..Len(notified[1]) : notified[1][i][2] /\ ~notified[1][j][2]

(* C4: in every state the packets sent and not yet acknowledged number      *)
(* between 0 and max_packet_window_size - 2, and the window assertion of    *)
(* write_packet_header has not failed.                                      *)
WindowBound ==
  \A c \in Peers :
    /\ Outstanding(conn[c]) >= 0
    /\ Outstanding(conn[c]) <= max_packet_window_size - 2
    /\ conn[c].crashed # "assert_window"

(* C4 happens: after an acknowledgement, a data packet is sent that fills   *)
(* the window                                                               *)
WindowFilledWitness ==
  /\ last.op = "check_packet_send" /\ last.ret = "sent"
  /\ Len(notified[1]) > 0
  /\ Outstanding(conn[1]) = max_packet_window_size - 2

(* C5: no step moves highest_acked_seq or last_seq_recvd backwards in       *)
(* sequence order, whatever header is read.                                 *)
SequencesNeverGoBack ==
  [][ \A c \in Peers :
        /\ SeqLe(conn[c].highest_acked_seq, conn'[c].highest_acked_seq)
        /\ SeqLe(conn[c].last_seq_recvd, conn'[c].last_seq_recvd) ]_vars

(* C5 happens: a second header has been read, and both sequences have       *)
(* moved on from where the connection started                               *)
SequencesMovedWitness ==
  /\ used.reads = 2
  /\ last.op = "read_raw_packet" /\ last.ret = "accept"
  /\ conn[1].highest_acked_seq # conn[1].initial_send_seq
  /\ conn[1].last_seq_recvd # conn[1].initial_recv_seq

RejectReasons == { "pad", "seq_window", "ack_window", "crypto", "malformed" }

(* C6: a header dropped for its pad bits, its sequence, its ack, its MAC,   *)
(* its ack byte count or its type leaves every field of the connection as   *)
(* it was, notifies nothing, hands no payload on and sends no packet.       *)
RejectedLeavesState ==
  [][ (last'.op = "read_raw_packet" /\ last'.ret \in RejectReasons)
        => /\ conn' = conn
           /\ notified' = notified
           /\ received' = received
           /\ net' = net
           /\ last'.notes = << >>
           /\ last'.out = {}
           /\ ~last'.val ]_vars

(* C6 happens: a header is dropped by a connection that has a ping out and  *)
(* data packets waiting for their notification                              *)
RejectedWitness ==
  /\ last.op = "read_raw_packet" /\ last.ret = "crypto"
  /\ conn[1].ping_send_count > 0
  /\ conn[1].last_ping_send_time > 0
  /\ Len(conn[1].notify_queue) > 0

(* the window of connection c is full, written out as in line 666           *)
Full(cn) == U32Ge(cn.last_send_seq - cn.highest_acked_seq, max_packet_window_size - 2)

(* C7 as claimed: with the window full, check_packet_send sends nothing     *)
(* and leaves last_send_seq, the notify queue, last_seq_recvd_at_send,      *)
(* last_update_time and the send delay credit as they were.                 *)
FullSendChangesNothing ==
  [][ (Full(conn[1]) /\ last'.op = "check_packet_send")
        => /\ last'.out = {}
           /\ conn'[1].last_send_seq = conn[1].last_send_seq
           /\ conn'[1].notify_queue = conn[1].notify_queue
           /\ conn'[1].last_seq_recvd_at_send = conn[1].last_seq_recvd_at_send
           /\ conn'[1].last_update_time = conn[1].last_update_time
           /\ conn'[1].send_delay_credit = conn[1].send_delay_credit ]_vars

(* C7 amended: with the window full, check_packet_send sends nothing and    *)
(* changes no field but the send delay credit, which a call that is not     *)
(* forced and comes a send period or more after the last send sets to       *)
(* current_time - (last_update_time + period - credit), at most 1000.       *)
FullSendChangesOnlyCredit ==
  [][ (Full(conn[1]) /\ last'.op = "check_packet_send")
        => LET cn == conn[1]
               elapsed == now - cn.last_update_time + cn.send_delay_credit
                            >= cn.current_packet_send_period
               credit ==
                 IF ~last'.force /\ elapsed
                   THEN Min(now - (cn.last_update_time
                                     + cn.current_packet_send_period
                                     - cn.send_delay_credit),
                            max_send_delay_credit)
                   ELSE cn.send_delay_credit
           IN  /\ last'.out = {}
               /\ conn'[1] = [cn EXCEPT !.send_delay_credit = credit] ]_vars

(* C7 happens: a call that was not forced met a full window and changed     *)
(* the send delay credit                                                    *)
FullSendCreditWitness ==
  /\ last.op = "check_packet_send" /\ last.ret = "blocked" /\ ~last.force
  /\ Full(conn[1])
  /\ conn[1].send_delay_credit > 0
  /\ used.sends = 1

----------------------------------------------------------------------------
(* SpecTimeout: one connection, the host calling check_timeout as its       *)
(* clock moves on, the peer mostly silent.                                  *)

MaxTime == 10

PingTimeouts == { 1, 2 }

RetryCounts == { 0, 1, 2 }

TmInit ==
  \E time_per_ping \in PingTimeouts, ping_retry_count \in RetryCounts :
    /\ conn = [ c \in Peers |->
                Established(IF c = 1 THEN 100 ELSE 500, IF c = 1 THEN 500 ELSE 100,
                            TRUE, FALSE, time_per_ping, ping_retry_count) ]
    /\ net = {}
    /\ now = 1
    /\ notified = [ c \in Peers |-> << >> ]
    /\ received = [ c \in Peers |-> << >> ]
    /\ sent = [ c \in Peers |-> << >> ]
    /\ ka = [ c \in Peers |-> KaIdle ]
    /\ last = NoOp
    /\ used = [ sends |-> 0, reads |-> 0 ]
    /\ build = [ traps |-> TRUE ]

TmCheck ==
  /\ CheckTimeout(1)
  /\ UNCHANGED <<net, now, used, build>>

TmTick ==
  /\ now < MaxTime
  /\ ClockTick
  /\ UNCHANGED <<net, used, build>>

(* the peer is heard from: a ping in the window, or a header with a pad bit *)
TmRead ==
  /\ used.reads < MaxReads
  /\ \E pad \in {0, 1} :
       ReadRawPacket(1, [MkHeader(ping_packet, conn[1].last_seq_recvd,
                                  conn[1].highest_acked_seq, {}, 0)
                           EXCEPT !.pad = pad], {})
  /\ used' = [used EXCEPT !.reads = @ + 1]
  /\ UNCHANGED <<net, now, build>>

TmNext == TmCheck \/ TmTick \/ TmRead

SpecTimeout == TmInit /\ [][TmNext]_vars

(* C9: since the last accepted packet, check_timeout has sent as many       *)
(* pings as ping_send_count says and never more than ping_retry_count, the  *)
(* first more than ping_timeout after the timer started and each more than  *)
(* ping_timeout after the one before, and it has returned true only with    *)
(* ping_send_count at ping_retry_count.                                     *)
PingsUnderSilence ==
  \A c \in Peers :
    LET k == ka[c]
        cn == conn[c]
    IN  /\ cn.ping_send_count <= cn.ping_retry_count
        /\ Len(k.pings) = cn.ping_send_count
        /\ \A i \in 1..Len(k.pings) :
              k.pings[i] - (IF i = 1 THEN k.start ELSE k.pings[i - 1]) > cn.ping_timeout
        /\ k.reported => /\ cn.ping_send_count >= cn.ping_retry_count
                          /\ Len(k.pings) = cn.ping_retry_count

(* C9 happens: two pings went unanswered and check_timeout returned true    *)
TimedOutWitness ==
  /\ last.op = "check_timeout" /\ last.val
  /\ ka[1].reported
  /\ conn[1].ping_retry_count = 2
  /\ Len(ka[1].pings) = 2

(* C10 as claimed: called every millisecond of a silence, check_timeout     *)
(* has returned true once the time since the keep-alive timer started       *)
(* exceeds ping_retry_count intervals, not one interval later.  An interval *)
(* is counted as the ping_timeout + 1 milliseconds the code lets pass       *)
(* between pings, which is the reading that favours the claim.              *)
TimeoutAfterRetryIntervals ==
  \A c \in Peers :
    ( /\ ka[c].start > 0 /\ ka[c].dense /\ ka[c].checked = now
      /\ conn[c].ping_retry_count >= 1
      /\ now - ka[c].start > conn[c].ping_retry_count * (conn[c].ping_timeout + 1) )
      => ka[c].reported

(* what the code does instead: the first true comes ping_retry_count + 1    *)
(* intervals of ping_timeout + 1 milliseconds after the timer started       *)
TimeoutAfterOneMoreInterval ==
  \A c \in Peers :
    (ka[c].start > 0 /\ ka[c].dense /\ ka[c].checked = now)
      => ( ka[c].reported
             <=> now - ka[c].start
                   >= (conn[c].ping_retry_count + 1) * (conn[c].ping_timeout + 1) )

----------------------------------------------------------------------------
(* SpecLife: one connection from its constructor on, the host moving it     *)
(* through the lifecycle states while data is sent and headers arrive.      *)
(* used.arg keeps the arguments of the last call.                           *)

LifeInit ==
  /\ conn = [ c \in Peers |->
              set_initial_recv_sequence(
                NewConnection(IF c = 1 THEN 100 ELSE 500, TRUE),
                IF c = 1 THEN 500 ELSE 100) ]
  /\ net = {}
  /\ now = 2 * default_fixed_send_period
  /\ notified = [ c \in Peers |-> << >> ]
  /\ received = [ c \in Peers |-> << >> ]
  /\ sent = [ c \in Peers |-> << >> ]
  /\ ka = [ c \in Peers |-> KaIdle ]
  /\ last = NoOp
  /\ used = [ sends |-> 0, reads |-> 0, arg |-> << >> ]
  /\ build = [ traps |-> TRUE ]

LifeSetState ==
  /\ \E state \in connection_states :
       conn' = [conn EXCEPT ![1] = set_connection_state(@, state)]
  /\ last' = [NoOp EXCEPT !.op = "set_connection_state", !.c = 1]
  /\ UNCHANGED <<net, now, notified, received, sent, ka, used, build>>

LifeSend ==
  /\ used.sends < MaxSend
  /\ \E force \in BOOLEAN, has_data \in BOOLEAN :
       /\ CheckPacketSend(1, force, has_data)
       /\ used' = [used EXCEPT !.sends = @ + 1, !.arg = <<force, has_data>>]
  /\ UNCHANGED <<net, now, build>>

(* a data packet and a ping that acknowledge everything, and a header      *)
(* whose ack is for a packet not sent yet                                   *)
LifeHeaders(cn) ==
  { MkHeader(data_packet, cn.last_seq_recvd + 1, cn.last_send_seq, 0..31, 4),
    MkHeader(ping_packet, cn.last_seq_recvd, cn.last_send_seq, {0}, 1),
    MkHeader(data_packet, cn.last_seq_recvd + 1, cn.last_send_seq + 1, 0..31, 4) }

LifeRead ==
  /\ used.reads < MaxReads
  /\ \E p \in LifeHeaders(conn[1]) :
       \E unwritten \in Unwritten(conn[1], p) :
         /\ ReadRawPacket(1, p, unwritten)
         /\ used' = [used EXCEPT !.reads = @ + 1, !.arg = <<p, unwritten>>]
  /\ UNCHANGED <<net, now, build>>

LifeNext == LifeSetState \/ LifeSend \/ LifeRead

SpecLife == LifeInit /\ [][LifeNext]_vars

(* C8 as claimed: in a lifecycle state other than connected,                *)
(* check_packet_send and read_raw_packet send nothing and leave the         *)
(* sequence and ack state as it was.                                        *)
OnlyWhenConnected ==
  [][ ( /\ last'.op \in { "check_packet_send", "read_raw_packet" }
        /\ conn[1].connection_state # "connected" )
        => /\ last'.out = {}
           /\ conn'[1].last_send_seq = conn[1].last_send_seq
           /\ conn'[1].highest_acked_seq = conn[1].highest_acked_seq
           /\ conn'[1].last_seq_recvd = conn[1].last_seq_recvd
           /\ conn'[1].ack_mask = conn[1].ack_mask
           /\ conn'[1].last_recv_ack_ack = conn[1].last_recv_ack_ack
           /\ conn'[1].notify_queue = conn[1].notify_queue ]_vars

(* C8 amended: check_packet_send and read_raw_packet do not look at the     *)
(* lifecycle state and do not change it: in every state they send, accept,  *)
(* notify and update the connection exactly as they do in connected.        *)
LifecycleIgnored ==
  [][ LET cn == conn[1]
          as_connected == set_connection_state(cn, "connected")
          sending == check_packet_send(as_connected, used'.arg[1], used'.arg[2],
                                       now, build.traps)
          reading == read_raw_packet(as_connected, used'.arg[1], used'.arg[2],
                                     build.traps)
      IN  /\ last'.op = "check_packet_send"
               => /\ conn'[1] = set_connection_state(sending.cn, cn.connection_state)
                  /\ last'.ret = sending.ret
          /\ last'.op = "read_raw_packet"
               => /\ conn'[1] = set_connection_state(reading.cn, cn.connection_state)
                  /\ last'.ret = reading.ret
                  /\ last'.out = reading.out
                  /\ last'.notes = reading.notes ]_vars

(* C8 happens: a connection that is not connected has sent a data packet    *)
(* and now accepts a header that notifies it                                *)
NotConnectedWitness ==
  /\ conn[1].connection_state = "not_connected"
  /\ Len(sent[1]) > 0
  /\ last.op = "read_raw_packet" /\ last.ret = "accept"
  /\ Len(last.notes) > 0

----------------------------------------------------------------------------
(* Spec: two connected endpoints and the wire between them, which may       *)
(* lose, duplicate and reorder what it carries: it delivers the datagrams   *)
(* it holds in any order, some twice, and those it never delivers are lost. *)

MaxData == 2
MaxDup == 1
MaxClock == 3

(* the datagrams a step hands to send_packet, addressed to the peer         *)
Outgoing(c, out) == { [ to |-> Other(c), pkt |-> p ] : p \in out }

Init ==
  /\ conn = [ c \in Peers |->
              Established(IF c = 1 THEN 100 ELSE 500, IF c = 1 THEN 500 ELSE 100,
                          TRUE, TRUE, 1, 1) ]
  /\ net = {}
  /\ now = 1
  /\ notified = [ c \in Peers |-> << >> ]
  /\ received = [ c \in Peers |-> << >> ]
  /\ sent = [ c \in Peers |-> << >> ]
  /\ ka = [ c \in Peers |-> KaIdle ]
  /\ last = NoOp
  /\ used = [ sends |-> 0, dups |-> 0 ]
  /\ build = [ traps |-> TRUE ]

(* the application of c has data and the host sends it at once              *)
Send(c) ==
  /\ used.sends < MaxData
  /\ CheckPacketSend(c, TRUE, TRUE)
  /\ net' = net \cup Outgoing(c, last'.out)
  /\ used' = [used EXCEPT !.sends = @ + 1]
  /\ UNCHANGED <<now, build>>

Timeout(c) ==
  /\ CheckTimeout(c)
  /\ net' = net \cup Outgoing(c, last'.out)
  /\ UNCHANGED <<now, used, build>>

Tick ==
  /\ now < MaxClock
  /\ ClockTick
  /\ UNCHANGED <<net, used, build>>

(* the wire delivers a datagram, and may keep a copy to deliver again       *)
Deliver(m, keep) ==
  /\ m \in net
  /\ keep => used.dups < MaxDup
  /\ \E unwritten \in Unwritten(conn[m.to], m.pkt) :
       ReadRawPacket(m.to, m.pkt, unwritten)
  /\ net' = (IF keep THEN net ELSE net \ {m}) \cup Outgoing(m.to, last'.out)
  /\ used' = [used EXCEPT !.dups = IF keep THEN @ + 1 ELSE @]
  /\ UNCHANGED <<now, build>>

Next ==
  \/ \E c \in Peers : Send(c)
  \/ \E c \in Peers : Timeout(c)
  \/ Tick
  \/ \E m \in net, keep \in BOOLEAN : Deliver(m, keep)

Spec == Init /\ [][Next]_vars

(* C2 as claimed: a data packet is notified as delivered only if the peer   *)
(* handed its payload to read_packet, and as dropped only if the peer       *)
(* never did.                                                               *)
NotifiedAsHanded ==
  \A c \in Peers :
    \A i \in 1..Len(notified[c]) :
      notified[c][i][2]
        <=> \E j \in 1..Len(received[Other(c)]) :
              received[Other(c)][j] = notified[c][i][1]

----------------------------------------------------------------------------
(* FairSpec: the two endpoints for ever.  The host of each calls            *)
(* check_timeout every millisecond, the wire loses or holds back what it    *)
(* likes, and the applications send while they have data.  The operations   *)
(* read                                                                     *)
(* the clock only through differences from a running ping timer, so a       *)
(* millisecond tick moves the origin of time along with the oldest running  *)
(* timer and the clock stays small.                                         *)

MaxFairData == 1
MaxInFlight == 1

(* the wire holds MaxInFlight datagrams for each endpoint and loses what    *)
(* is sent to an endpoint beyond that                                       *)
Wire(n, out) ==
  { m \in out : Cardinality({ x \in n : x.to = m.to }) >= MaxInFlight }

FairWire(n, out) == IF Wire(n, out) = {} THEN n \cup out ELSE n

(* the sender starts with k data packets sent and lost                      *)
FairInit ==
  \E k \in {0, max_packet_window_size - 2} :
    /\ conn = [ c \in Peers |->
                IF c = 1 THEN AfterSends(Established(100, 500, TRUE, TRUE, 1, 1), k, 1)
                         ELSE Established(500, 100, TRUE, TRUE, 1, 1) ]
    /\ net = {}
    /\ now = 1
    /\ notified = [ c \in Peers |-> << >> ]
    /\ received = [ c \in Peers |-> << >> ]
    /\ sent = [ c \in Peers |->
                IF c = 1 THEN SentBy(Established(100, 500, TRUE, TRUE, 1, 1), k)
                         ELSE << >> ]
    /\ ka = [ c \in Peers |-> KaIdle ]
    /\ last = NoOp
    /\ used = [ sends |-> 0, dups |-> 0 ]
    /\ build = [ traps |-> TRUE ]

FairSend(c) ==
  /\ used.sends < MaxFairData
  /\ CheckPacketSend(c, TRUE, TRUE)
  /\ net' = FairWire(net, Outgoing(c, last'.out))
  /\ used' = [used EXCEPT !.sends = @ + 1]
  /\ UNCHANGED <<now, build>>

(* the host's call of this millisecond                                      *)
FairTimeout(c) ==
  /\ ka[c].checked # now
  /\ CheckTimeout(c)
  /\ net' = FairWire(net, Outgoing(c, last'.out))
  /\ UNCHANGED <<now, used, build>>

FairDeliver(m) ==
  /\ m \in net
  /\ \E unwritten \in Unwritten(conn[m.to], m.pkt) :
       ReadRawPacket(m.to, m.pkt, unwritten)
  /\ net' = FairWire(net \ {m}, Outgoing(m.to, last'.out))
  /\ UNCHANGED <<now, used, build>>

FairLose(m) ==
  /\ m \in net
  /\ net' = net \ {m}
  /\ last' = [NoOp EXCEPT !.op = "lose", !.c = m.to]
  /\ UNCHANGED <<conn, now, notified, received, sent, ka, used, build>>

(* the ping timers that run                                                 *)
Timers == { conn[c].last_ping_send_time : c \in { x \in Peers : Alive(x) } } \ {0}

(* a millisecond passes once every live connection had its check_timeout;   *)
(* time is then counted from one millisecond before the oldest timer, and   *)
(* the pings older than that are forgotten                                  *)
FairTick ==
  /\ \A c \in Peers : Alive(c) => ka[c].checked = now
  /\ LET oldest == IF Timers = {} THEN now + 1
                   ELSE CHOOSE t \in Timers : \A u \in Timers : t <= u
         shift == oldest - 1
         moved(t) == IF t = 0 THEN 0 ELSE t - shift
     IN  /\ now' = now + 1 - shift
         /\ conn' = [ c \in Peers |->
                      IF Alive(c)
                        THEN [conn[c] EXCEPT !.last_ping_send_time = moved(@),
                                             !.last_update_time = 0]
                        ELSE conn[c] ]
         /\ ka' = [ c \in Peers |->
                    IF Alive(c)
                      THEN [ka[c] EXCEPT !.start = moved(@), !.checked = 0,
                                         !.pings = SelectSeq([ i \in 1..Len(@) |-> moved(@[i]) ],
                                                             LAMBDA t : t >= 1)]
                      ELSE ka[c] ]
  /\ last' = [NoOp EXCEPT !.op = "tick"]
  /\ UNCHANGED <<net, notified, received, sent, used, build>>

FairNext ==
  \/ \E c \in Peers : FairSend(c)
  \/ \E c \in Peers : FairTimeout(c)
  \/ \E m \in net : FairDeliver(m)
  \/ \E m \in net : FairLose(m)
  \/ FairTick

(* the hosts keep calling check_timeout and time keeps passing; nothing is  *)
(* asked of the wire, which may lose or hold back every datagram            *)
FairSpec ==
  /\ FairInit
  /\ [][FairNext]_vars
  /\ WF_vars(FairTick)
  /\ \A c \in Peers : WF_vars(FairTimeout(c))

(* C3: every data packet sent is in the end notified, or check_timeout      *)
(* reports the connection timed out: again and again every packet a         *)
(* connection has sent is notified, unless it has reported a timeout.       *)
EveryPacketSettled ==
  \A c \in Peers :
    []<>(Len(notified[c]) = Len(sent[c]) \/ ka[c].reported)

(* a full window of packets, every one of them notified                     *)
FullWindowSettledWitness ==
  /\ Len(sent[1]) = max_packet_window_size - 2
  /\ Len(notified[1]) = Len(sent[1])
  /\ ~ka[1].reported
  /\ last.op = "read_raw_packet"

----------------------------------------------------------------------------
(* SpecDefault: a connection on which set_ping_timeouts was never called,   *)
(* its peer silent, the host calling check_timeout each time the clock has  *)
(* moved on, by a default ping interval or by a millisecond more.           *)

MaxIntervals == 12

DefaultJumps == { default_ping_timeout, default_ping_timeout + 1 }

DfInit ==
  /\ conn = [ c \in Peers |->
              set_connection_state(
                set_initial_recv_sequence(
                  NewConnection(IF c = 1 THEN 100 ELSE 500, TRUE),
                  IF c = 1 THEN 500 ELSE 100),
                "connected") ]
  /\ net = {}
  /\ now = 1
  /\ notified = [ c \in Peers |-> << >> ]
  /\ received = [ c \in Peers |-> << >> ]
  /\ sent = [ c \in Peers |-> << >> ]
  /\ ka = [ c \in Peers |-> KaIdle ]
  /\ last = NoOp
  /\ used = [ sends |-> 0, reads |-> 0 ]
  /\ build = [ traps |-> TRUE ]

DfCheck ==
  /\ CheckTimeout(1)
  /\ UNCHANGED <<net, now, used, build>>

DfTick ==
  /\ ka[1].checked = now
  /\ \E d \in DefaultJumps :
       /\ now + d <= MaxIntervals * (default_ping_timeout + 1)
       /\ now' = now + d
  /\ ka' = [ c \in Peers |-> [ka[c] EXCEPT !.dense = FALSE] ]
  /\ last' = [NoOp EXCEPT !.op = "tick"]
  /\ UNCHANGED <<conn, net, notified, received, sent, used, build>>

DfNext == DfCheck \/ DfTick

SpecDefault == DfInit /\ [][DfNext]_vars

(* C11 as claimed: the defaults are 5000 ms and 5 pings, so under silence   *)
(* no more than 5 pings go out and the timeout is reported after the 5th.   *)
DefaultFiveRetries ==
  /\ conn[1].ping_timeout = 5000
  /\ Len(ka[1].pings) <= 5
  /\ ka[1].reported => Len(ka[1].pings) = 5

(* C11: a connection on which set_ping_timeouts was not called waits more   *)
(* than 5000 ms before each ping and reports the timeout after 10           *)
(* unanswered pings, never before.                                          *)
DefaultTenRetries ==
  /\ conn[1].ping_timeout = 5000
  /\ conn[1].ping_retry_count = 10
  /\ Len(ka[1].pings) = conn[1].ping_send_count
  /\ Len(ka[1].pings) <= 10
  /\ \A i \in 1..Len(ka[1].pings) :
        ka[1].pings[i] - (IF i = 1 THEN ka[1].start ELSE ka[1].pings[i - 1]) > 5000
  /\ ka[1].reported => Len(ka[1].pings) = 10

(* C11 happens: check_timeout has just returned true, ten pings out         *)
DefaultTimedOutWitness ==
  /\ last.op = "check_timeout" /\ last.val
  /\ ka[1].reported
  /\ Len(ka[1].pings) = 10

----------------------------------------------------------------------------
(* More properties of SpecHdr                                               *)

(* C12: every header that read_packet_header accepts, of whatever type and  *)
(* whether or not it returns true for it, leaves ping_send_count at 0 and   *)
(* the ping timer idle, to be started afresh by the next check_timeout.     *)
AcceptedKeepsAlive ==
  [][ (last'.op = "read_raw_packet" /\ last'.ret = "accept")
        => \A c \in Peers :
             c = last'.c =>
               /\ conn'[c].ping_send_count = 0
               /\ conn'[c].last_ping_send_time = 0
               /\ ka'[c] = KaIdle ]_vars

(* C12 happens: a connection with a ping out has accepted a data packet     *)
(* that repeats the last sequence, for which read_packet_header returned    *)
(* false                                                                    *)
RepeatKeepsAliveWitness ==
  /\ conn[1].initial_send_seq = 500
  /\ used.reads = 1 /\ used.sends = 0
  /\ last.op = "read_raw_packet" /\ last.ret = "accept" /\ ~last.val
  /\ conn[1].last_seq_recvd = conn[1].initial_recv_seq
  /\ 0 \in conn[1].ack_mask
  /\ conn[1].ping_send_count = 0

(* C14: read_raw_packet hands a payload on only for a data packet whose     *)
(* sequence is from 1 to 31 beyond the last_seq_recvd it found, and that    *)
(* sequence becomes last_seq_recvd; so the sequences handed on go up and    *)
(* none is handed on twice.                                                 *)
HandedOnlyNewData ==
  /\ [](\A c \in Peers :
          /\ \A i \in 2..Len(received[c]) :
                received[c][i] - received[c][i - 1] > 0
          /\ \A i, j \in 1..Len(received[c]) : i # j => received[c][i] # received[c][j])
  /\ [][ \A c \in Peers :
           IF last'.op = "read_raw_packet" /\ last'.c = c /\ last'.val
             THEN \E s \in { conn[c].last_seq_recvd + d : d \in 1..(max_packet_window_size - 1) } :
                    /\ received'[c] = Append(received[c], s)
                    /\ conn'[c].last_seq_recvd = s
                    /\ 0 \in conn'[c].ack_mask
                    /\ last'.ret = "accept"
             ELSE received'[c] = received[c] ]_vars

(* C14 happens: two payloads were handed on, the first a whole window less  *)
(* one ahead of the initial sequence                                        *)
HandedTwiceWitness ==
  /\ Len(received[1]) = 2
  /\ received[1][1] = conn[1].initial_recv_seq + max_packet_window_size - 1
  /\ last.op = "read_raw_packet" /\ last.val

----------------------------------------------------------------------------
(* SpecSeq: one connection that sends data, is heard from and, between,    *)
(* has its check_timeout called as the clock moves: the three kinds of      *)
(* packet a connection writes.                                              *)

MaxSeqTime == 4

SeqSend ==
  /\ used.sends < MaxSend
  /\ CheckPacketSend(1, TRUE, TRUE)
  /\ used' = [used EXCEPT !.sends = @ + 1]
  /\ UNCHANGED <<net, now, build>>

SeqRead ==
  /\ used.reads < MaxReads
  /\ \E p \in LifeHeaders(conn[1]) :
       \E unwritten \in Unwritten(conn[1], p) : ReadRawPacket(1, p, unwritten)
  /\ used' = [used EXCEPT !.reads = @ + 1]
  /\ UNCHANGED <<net, now, build>>

SeqTimeout ==
  /\ CheckTimeout(1)
  /\ UNCHANGED <<net, now, used, build>>

SeqTick ==
  /\ now < MaxSeqTime
  /\ ClockTick
  /\ UNCHANGED <<net, used, build>>

SeqNext == SeqSend \/ SeqRead \/ SeqTimeout \/ SeqTick

SpecSeq == HdrInit /\ [][SeqNext]_vars

(* C13: the k-th data packet a connection sends carries the sequence        *)
(* initial_send_seq + k, which is what get_next_send_sequence answered      *)
(* just before and one more than the packet before it; any other step,      *)
(* the writing of a ping or of an ack packet among them, leaves             *)
(* last_send_seq and last_seq_recvd_at_send as they were and, unless it     *)
(* stops the process, takes from the notify queue only the entries it       *)
(* notified.                                                                *)
SendSequenceStepsWithData ==
  /\ [](\A c \in Peers :
          conn[c].crashed = "no" =>
          /\ conn[c].last_send_seq = conn[c].initial_send_seq + Len(sent[c])
          /\ \A k \in 1..Len(sent[c]) : sent[c][k] = conn[c].initial_send_seq + k)
  /\ [][ \A c \in Peers :
           IF last'.op = "check_packet_send" /\ last'.c = c /\ last'.ret = "sent"
             THEN /\ conn'[c].last_send_seq = conn[c].last_send_seq + 1
                  /\ conn'[c].last_send_seq = get_next_send_sequence(conn[c])
                  /\ sent'[c] = Append(sent[c], conn'[c].last_send_seq)
                  /\ conn'[c].notify_queue
                       = Append(conn[c].notify_queue, conn'[c].last_send_seq)
                  /\ \A p \in last'.out :
                       /\ p.type = data_packet
                       /\ p.seq = LowBits(conn'[c].last_send_seq, sequence_number_bit_size)
             ELSE /\ conn'[c].last_send_seq = conn[c].last_send_seq
                  /\ conn'[c].last_seq_recvd_at_send = conn[c].last_seq_recvd_at_send
                  /\ sent'[c] = sent[c]
                  /\ conn'[c].crashed = "no" =>
                     conn'[c].notify_queue
                       = SubSeq(conn[c].notify_queue,
                                Len(notified'[c]) - Len(notified[c]) + 1,
                                Len(conn[c].notify_queue))
                  /\ \A p \in last'.out :
                       /\ last'.c = c
                       => /\ p.type \in {ping_packet, ack_packet}
                          /\ p.seq = LowBits(conn[c].last_send_seq, sequence_number_bit_size) ]_vars

(* C13 happens: a connection that has sent two data packets, neither        *)
(* notified yet, has just written a ping                                    *)
PingAfterDataWitness ==
  /\ last.op = "check_timeout" /\ last.ret = "ping" /\ last.c = 1
  /\ Len(sent[1]) = 2
  /\ Len(conn[1].notify_queue) = 2

----------------------------------------------------------------------------
(* SpecAck: SpecHdr with the header handed to read_raw_packet kept in       *)
(* used.arg, for the properties that speak of the packet that came.         *)

AckSend == SeqSend

AckRead ==
  /\ used.reads < MaxReads
  /\ \E p \in Headers(conn[1]) :
       \E unwritten \in Unwritten(conn[1], p) :
         /\ ReadRawPacket(1, p, unwritten)
         /\ used' = [ sends |-> used.sends, reads |-> used.reads + 1, arg |-> p ]
  /\ UNCHANGED <<net, now, build>>

AckNext == AckSend \/ AckRead

SpecAck == HdrInit /\ [][AckNext]_vars

(* C15: when read_raw_packet has accepted a header it has sent one ack      *)
(* packet, carrying last_send_seq and the new last_seq_recvd, if the        *)
(* header was a ping or its sequence is more than half a window beyond      *)
(* last_recv_ack_ack as the ack processing left it, and no packet           *)
(* otherwise; for a header it drops it sends none.                          *)
AckWhenPingOrHalfWindow ==
  [][ last'.op = "read_raw_packet" =>
        LET p == used'.arg
            cn == conn'[1]
            due == \/ p.type = ping_packet
                   \/ U32Gt(cn.last_seq_recvd - cn.last_recv_ack_ack,
                            max_packet_window_size \div 2)
        IN  IF last'.ret = "accept" /\ due
              THEN \E a \in last'.out :
                     /\ last'.out = {a}
                     /\ a.type = ack_packet
                     /\ a.seq = LowBits(cn.last_send_seq, sequence_number_bit_size)
                     /\ a.ack = LowBits(cn.last_seq_recvd, ack_sequence_number_bit_size)
              ELSE last'.out = {} ]_vars

(* C15 happens: a data packet most of a window ahead was answered with an   *)
(* ack packet                                                               *)
DataAnsweredWitness ==
  /\ last.op = "read_raw_packet" /\ last.ret = "accept" /\ last.val
  /\ used.arg.type = data_packet
  /\ last.out # {}

(* C16 as claimed: a header whose data packet flag is clear is dropped as   *)
(* one with pad bits is: read_packet_header returns false, nothing is       *)
(* notified or sent and no field of the connection changes.                 *)
ClearFlagDropped ==
  [][ (last'.op = "read_raw_packet" /\ ~used'.arg.flag)
        => /\ conn' = conn
           /\ last'.ret \in RejectReasons
           /\ ~last'.val
           /\ notified' = notified
           /\ received' = received
           /\ last'.out = {} ]_vars

(* what the code does with such a header where assert expands to nothing:   *)
(* it is read as if the flag were set                                       *)
ClearFlagAcceptedWitness ==
  /\ last.op = "read_raw_packet" /\ last.ret = "accept" /\ last.val
  /\ ~used.arg.flag
  /\ ~build.traps

(* and where assert traps: the process stops at line 382                    *)
ClearFlagTrapsWitness ==
  /\ last.op = "read_raw_packet" /\ last.ret = "crash"
  /\ ~used.arg.flag
  /\ conn[1].crashed = "assert_flag"

----------------------------------------------------------------------------
(* SpecLoss: two endpoints, the first with a simulated packet loss set.     *)
(* below says that the draw from the host's random numbers came out below   *)
(* _simulated_packet_loss.                                                  *)

MaxLossData == 3

(* send_packet answering a simulated drop with a failure                    *)
send_packet_failing_drop(cn, pkt, below) ==
  IF cn.simulated_packet_loss /\ below
    THEN [ result |-> "send_to_failure", wire |-> {} ]
    ELSE [ result |-> "send_to", wire |-> {pkt} ]

(* lines 797-814: what send_packet returns, send_to standing for whatever   *)
(* the socket answers, and what it hands to the socket                      *)
send_packet(cn, pkt, below) ==
  IF cn.simulated_packet_loss /\ below
    THEN [ result |-> "send_to_success", wire |-> {} ]
    ELSE [ result |-> "send_to", wire |-> {pkt} ]

LossInit ==
  /\ conn = [ c \in Peers |->
              IF c = 1
                THEN set_simulated_net_params(
                       Established(100, 500, TRUE, FALSE, 1, 1), TRUE)
                ELSE Established(500, 100, TRUE, FALSE, 1, 1) ]
  /\ net = {}
  /\ now = 1
  /\ notified = [ c \in Peers |-> << >> ]
  /\ received = [ c \in Peers |-> << >> ]
  /\ sent = [ c \in Peers |-> << >> ]
  /\ ka = [ c \in Peers |-> KaIdle ]
  /\ last = NoOp
  /\ used = [ sends |-> 0, lost |-> {}, result |-> "" ]
  /\ build = [ traps |-> TRUE ]

(* the packets of out that get past send_packet                             *)
PastSendPacket(cn, out, below) ==
  UNION { send_packet(cn, p, below).wire : p \in out }

LossSend(c, below) ==
  /\ used.sends < MaxLossData
  /\ CheckPacketSend(c, TRUE, TRUE)
  /\ net' = net \cup Outgoing(c, PastSendPacket(conn'[c], last'.out, below))
  /\ used' = [ sends |-> used.sends + 1,
               lost |-> IF PastSendPacket(conn'[c], last'.out, below) = {}
                          THEN used.lost \cup {<<c, conn'[c].last_send_seq>>}
                          ELSE used.lost,
               result |-> IF \E p \in last'.out :
                               send_packet(conn'[c], p, below).result = "send_to_success"
                            THEN "send_to_success" ELSE "send_to" ]
  /\ UNCHANGED <<now, build>>

(* lines 252-256: read_raw_packet drops the datagram before it is read      *)
LossReceive(m) ==
  /\ m \in net
  /\ conn[m.to].simulated_packet_loss
  /\ net' = net \ {m}
  /\ last' = [NoOp EXCEPT !.op = "read_raw_packet", !.c = m.to, !.ret = "recv_drop"]
  /\ UNCHANGED <<conn, now, notified, received, sent, ka, used, build>>

LossDeliver(m, below) ==
  /\ m \in net
  /\ \E unwritten \in Unwritten(conn[m.to], m.pkt) :
       ReadRawPacket(m.to, m.pkt, unwritten)
  /\ net' = (net \ {m})
               \cup Outgoing(m.to, PastSendPacket(conn'[m.to], last'.out, below))
  /\ UNCHANGED <<now, used, build>>

LossNext ==
  \/ \E c \in Peers, below \in BOOLEAN : LossSend(c, below)
  \/ \E m \in net : LossReceive(m)
  \/ \E m \in net, below \in BOOLEAN : LossDeliver(m, below)

SpecLoss == LossInit /\ [][LossNext]_vars

(* C17: a data packet that send_packet drops for the simulated loss still   *)
(* takes the next sequence number and a notify queue entry, send_packet     *)
(* reports send_to_success and check_packet_send goes on as for any sent    *)
(* packet; the sequence is later notified in its turn as not delivered      *)
SimulatedDropStillCounts ==
  /\ [](\A c \in Peers :
         /\ \A i \in 1..Len(notified[c]) :
              /\ notified[c][i][1] = sent[c][i]
              /\ <<c, notified[c][i][1]>> \in used.lost => ~notified[c][i][2]
         /\ \A x \in used.lost :
              /\ \E i \in 1..Len(sent[x[1]]) : sent[x[1]][i] = x[2]
              /\ conn[x[1]].simulated_packet_loss)
  /\ [][ \A c \in Peers :
           used'.lost # used.lost /\ last'.c = c
           => /\ last'.op = "check_packet_send" /\ last'.ret = "sent"
              /\ used'.result = "send_to_success"
              /\ used'.lost = used.lost \cup {<<c, conn[c].last_send_seq + 1>>}
              /\ conn'[c].last_send_seq = conn[c].last_send_seq + 1
              /\ conn'[c].notify_queue
                   = Append(conn[c].notify_queue, conn[c].last_send_seq + 1)
              /\ sent'[c] = Append(sent[c], conn[c].last_send_seq + 1)
              /\ net' = net ]_vars

(* C17 happens: the first endpoint has been told that a packet it sent and  *)
(* send_packet dropped was not delivered, and that a later one was          *)
DroppedNotifiedWitness ==
  /\ last.op = "read_raw_packet" /\ last.c = 1 /\ last.ret = "accept"
  /\ \E i, j \in 1..Len(notified[1]) :
       /\ i < j
       /\ <<1, notified[1][i][1]>> \in used.lost /\ ~notified[1][i][2]
       /\ <<1, notified[1][j][1]>> \notin used.lost /\ notified[1][j][2]

----------------------------------------------------------------------------
(* SpecMask: one receiver handed data, ping and ack headers whose sequence  *)
(* is the last received one or up to a window and one beyond it;            *)
(* used.data keeps the sequences that came in accepted data packets.        *)

MaxMaskReads == 3

MaskStarts == { 500, 2040, -10 }

MaskGaps == { 0, 1, 2, 3, 31, 32 }

MaskHeaders(cn) ==
  { MkHeader(t, cn.last_seq_recvd + g, cn.highest_acked_seq, {}, 4) :
      t \in { data_packet, ping_packet, ack_packet }, g \in MaskGaps }

MaskInit ==
  \E r \in MaskStarts :
    /\ conn = [ c \in Peers |-> IF c = 1 THEN Established(100, r, TRUE, FALSE, 1, 2)
                                         ELSE Established(r, 100, TRUE, FALSE, 1, 2) ]
    /\ net = {}
    /\ now = 1
    /\ notified = [ c \in Peers |-> << >> ]
    /\ received = [ c \in Peers |-> << >> ]
    /\ sent = [ c \in Peers |-> << >> ]
    /\ ka = [ c \in Peers |-> KaIdle ]
    /\ last = NoOp
    /\ used = [ reads |-> 0, data |-> {}, arg |-> MkHeader(ping_packet, r, 100, {}, 4) ]
    /\ build = [ traps |-> TRUE ]

MaskRead ==
  /\ used.reads < MaxMaskReads
  /\ \E p \in MaskHeaders(conn[1]) :
       /\ ReadRawPacket(1, p, {})
       /\ used' = [ reads |-> used.reads + 1,
                    data |-> IF last'.ret = "accept" /\ p.type = data_packet
                               THEN used.data \cup { conn'[1].last_seq_recvd }
                               ELSE used.data,
                    arg |-> p ]
  /\ UNCHANGED <<net, now, build>>

MaskNext == MaskRead

SpecMask == MaskInit /\ [][MaskNext]_vars

(* bit i of the ack word says that last_seq_recvd - i came in an accepted   *)
(* data packet                                                              *)
MaskIsHistory ==
  \A i \in 0..31 :
    i \in conn[1].ack_mask <=> (conn[1].last_seq_recvd - i) \in used.data

(* the accepted header's own bit after the step is the packet's kind        *)
OwnBitIsKind ==
  0 \in conn'[1].ack_mask <=> used'.arg.type = data_packet

(* C18 as stated: the mask is the history of accepted data packets, and an  *)
(* accepted header moves it up by the sequence difference, clears the bits  *)
(* of the sequences passed over and sets bit 0 iff it is a data packet      *)
MaskBitIffDataPacket ==
  /\ []MaskIsHistory
  /\ [][ last'.ret = "accept" => OwnBitIsKind ]_vars

(* C18 as the code has it: the same, but a ping or ack packet that repeats  *)
(* the last received sequence leaves bit 0 as it was, so the bit stays set  *)
(* when that sequence had come in a data packet                             *)
MaskRecordsAcceptedData ==
  /\ []MaskIsHistory
  /\ [][ last'.ret = "accept"
         => LET shift == conn'[1].last_seq_recvd - conn[1].last_seq_recvd
            IN  /\ shift \in 0..31
                /\ \A i \in 1..31 :
                     i \in conn'[1].ack_mask
                       <=> (i >= shift /\ (i - shift) \in conn[1].ack_mask)
                /\ shift > 0 => OwnBitIsKind
                /\ shift = 0 => (0 \in conn'[1].ack_mask
                                  <=> (used'.arg.type = data_packet
                                         \/ 0 \in conn[1].ack_mask)) ]_vars

(* C18 happens: a ping that repeats the sequence of the data packet before  *)
(* it has been accepted, after a gap of two sequences that were never seen  *)
PingRepeatsDataWitness ==
  /\ last.op = "read_raw_packet" /\ last.ret = "accept"
  /\ used.arg.type = ping_packet
  /\ conn[1].last_seq_recvd \in used.data
  /\ conn[1].ack_mask = {0, 3}

----------------------------------------------------------------------------
(* More properties of SpecAck                                               *)

----------------------------------------------------------------------------
(* SpecWindow: one receiver at a drawn last_seq_recvd is handed data        *)
(* headers whose 11 sequence bits are drawn around its own.                 *)

MaxWindowReads == 2

WindowStarts == { 50, 1000, 2016, 2047, 4095, -16, -1, 0 }

(* how far beyond last_seq_recvd the sender of a header may be              *)
WindowGaps == (-2..40) \cup { 50, 1000, 2016, 2047 }

WindowHeaders(cn) ==
  { MkHeader(data_packet, cn.last_seq_recvd + g, cn.highest_acked_seq, {}, 4) :
      g \in WindowGaps }

WindowInit ==
  \E r \in WindowStarts :
    /\ conn = [ c \in Peers |-> IF c = 1 THEN Established(100, r, TRUE, FALSE, 1, 2)
                                         ELSE Established(r, 100, TRUE, FALSE, 1, 2) ]
    /\ net = {}
    /\ now = 1
    /\ notified = [ c \in Peers |-> << >> ]
    /\ received = [ c \in Peers |-> << >> ]
    /\ sent = [ c \in Peers |-> << >> ]
    /\ ka = [ c \in Peers |-> KaIdle ]
    /\ last = NoOp
    /\ used = [ reads |-> 0, arg |-> MkHeader(ping_packet, r, 100, {}, 4) ]
    /\ build = [ traps |-> TRUE ]

WindowRead ==
  /\ used.reads < MaxWindowReads
  /\ \E p \in WindowHeaders(conn[1]) :
       /\ ReadRawPacket(1, p, {})
       /\ used' = [ reads |-> used.reads + 1, arg |-> p ]
  /\ UNCHANGED <<net, now, build>>

WindowNext == WindowRead

SpecWindow == WindowInit /\ [][WindowNext]_vars

(* C20: the header's 11 sequence bits are those of last_seq_recvd + g for   *)
(* one g in 0..2047.  With g at most 31 the header is accepted,             *)
(* last_seq_recvd becomes last_seq_recvd + g and the ack mask moves up by   *)
(* g; with any greater g the header is dropped as outside the window and    *)
(* the connection is left as it was                                         *)
ReconstructsInsideWindow ==
  [][ LET lsr == conn[1].last_seq_recvd
          g == (used'.arg.seq - LowBits(lsr, sequence_number_bit_size))
                 % sequence_number_window_size
      IN  IF g <= max_packet_window_size - 1
            THEN /\ last'.ret = "accept"
                 /\ conn'[1].last_seq_recvd = lsr + g
                 /\ conn'[1].ack_mask
                      = { i + g : i \in { j \in conn[1].ack_mask : j + g <= 31 } }
                          \cup {0}
            ELSE /\ last'.ret = "seq_window"
                 /\ ~last'.val
                 /\ conn' = conn ]_vars

(* C20 happens: at last_seq_recvd = 2^11 - 1, received in a data packet, a  *)
(* header with sequence bits 0 has been accepted as 2^11                    *)
WrappedSequenceWitness ==
  /\ last.op = "read_raw_packet" /\ last.ret = "accept"
  /\ used.arg.seq = 0
  /\ conn[1].last_seq_recvd = sequence_number_window_size
  /\ conn[1].ack_mask = {0, 1}

(* C21: between calls last_seq_recvd is from 0 to a window ahead of         *)
(* last_recv_ack_ack, so the ack byte count of a header written then is at  *)
(* most max_ack_byte_count: no header goes out with more, the one sent      *)
(* from inside read_packet_header included, and the assertion of line 304   *)
(* never stops a connection                                                 *)
AckBytesFit ==
  /\ \A c \in Peers :
       /\ conn[c].crashed # "assert_ack_bytes"
       /\ conn[c].crashed = "no"
          => /\ conn[c].last_seq_recvd - conn[c].last_recv_ack_ack
                  \in 0..max_packet_window_size
             /\ AckByteCount(conn[c]) \in 0..max_ack_byte_count
             /\ write_packet_header(conn[c], ping_packet).failed = "no"
  /\ \A p \in last.out : p.abc <= max_ack_byte_count

(* C21 happens: last_recv_ack_ack was clamped a whole window behind and     *)
(* the ack packet sent from inside read_packet_header carried all four ack  *)
(* bytes                                                                    *)
FourAckBytesWitness ==
  /\ last.op = "read_raw_packet" /\ last.ret = "accept"
  /\ conn[1].last_seq_recvd - conn[1].last_recv_ack_ack = max_packet_window_size
  /\ conn[1].last_seq_recvd - conn[1].initial_recv_seq > max_packet_window_size
  /\ \E p \in last.out : p.type = ack_packet /\ p.abc = max_ack_byte_count

----------------------------------------------------------------------------
(* SpecWrap: the two endpoints of Spec, the first of which drew an initial  *)
(* send sequence two below 2^32, with or without a cipher: its second data  *)
(* packet has sequence 0.                                                   *)

WrapInit ==
  \E the_cipher \in BOOLEAN :
    /\ conn = [ c \in Peers |->
                Established(IF c = 1 THEN -2 ELSE 500, IF c = 1 THEN 500 ELSE -2,
                            TRUE, the_cipher, 1, 1) ]
    /\ net = {}
    /\ now = 1
    /\ notified = [ c \in Peers |-> << >> ]
    /\ received = [ c \in Peers |-> << >> ]
    /\ sent = [ c \in Peers |-> << >> ]
    /\ ka = [ c \in Peers |-> KaIdle ]
    /\ last = NoOp
    /\ used = [ sends |-> 0, dups |-> 0 ]
    /\ build = [ traps |-> TRUE ]

SpecWrap == WrapInit /\ [][Next]_vars

(* C22: a datagram the peer wrote and nobody altered, once past the window  *)
(* and ack tests, is given the counter its writer used, and so is never     *)
(* dropped by the cipher                                                    *)
GenuineNeverFailsMac ==
  ~(last.op = "read_raw_packet" /\ last.ret = "crypto")

----------------------------------------------------------------------------
(* SpecSeen: the two endpoints and the wire of Spec, from initial send      *)
(* sequences away from and just below 2^32; only the first endpoint has     *)
(* data.  used.seen keeps the datagrams each endpoint has accepted, each    *)
(* with the receive state it left behind.                                   *)

(* the fields of the receive state                                          *)
ReceiveState(cn) ==
  << cn.last_seq_recvd, cn.highest_acked_seq, cn.ack_mask, cn.last_recv_ack_ack >>

SeenInit ==
  \E s \in { 100, -2 }, the_cipher \in BOOLEAN :
    /\ conn = [ c \in Peers |->
                Established(IF c = 1 THEN s ELSE 500, IF c = 1 THEN 500 ELSE s,
                            TRUE, the_cipher, 1, 1) ]
    /\ net = {}
    /\ now = 1
    /\ notified = [ c \in Peers |-> << >> ]
    /\ received = [ c \in Peers |-> << >> ]
    /\ sent = [ c \in Peers |-> << >> ]
    /\ ka = [ c \in Peers |-> KaIdle ]
    /\ last = NoOp
    /\ used = [ sends |-> 0, dups |-> 0, seen |-> {}, arg |-> [ to |-> 0 ] ]
    /\ build = [ traps |-> TRUE ]

SeenDeliver(m, keep) ==
  /\ m \in net
  /\ keep => used.dups < MaxDup
  /\ \E unwritten \in Unwritten(conn[m.to], m.pkt) :
       ReadRawPacket(m.to, m.pkt, unwritten)
  /\ net' = (IF keep THEN net ELSE net \ {m}) \cup Outgoing(m.to, last'.out)
  /\ used' = [ sends |-> used.sends,
               dups |-> IF keep THEN used.dups + 1 ELSE used.dups,
               seen |-> IF last'.ret = "accept"
                          THEN used.seen
                                 \cup {[ dg |-> m, left |-> ReceiveState(conn'[m.to]) ]}
                          ELSE used.seen,
               arg |-> m ]
  /\ UNCHANGED <<now, build>>

SeenNext ==
  \/ Send(1)
  \/ \E c \in Peers : Timeout(c)
  \/ Tick
  \/ \E m \in net, keep \in BOOLEAN : SeenDeliver(m, keep)

SpecSeen == SeenInit /\ [][SeenNext]_vars

(* the step hands a connection a ping or ack packet it has accepted before  *)
(* and whose receive state it still has                                     *)
SecondCopy ==
  /\ last'.op = "read_raw_packet"
  /\ used'.arg.pkt.type \in { ping_packet, ack_packet }
  /\ [ dg |-> used'.arg, left |-> ReceiveState(conn[used'.arg.to]) ] \in used.seen

(* C23: read_raw_packet, handed a second copy of a ping or ack packet,      *)
(* leaves last_seq_recvd, highest_acked_seq, the ack mask and               *)
(* last_recv_ack_ack as the first copy left them and notifies nothing       *)
RepeatedPingOrAckIsIdle ==
  [][ SecondCopy
      => /\ conn'[used'.arg.to].crashed = "no"
         /\ ReceiveState(conn'[used'.arg.to]) = ReceiveState(conn[used'.arg.to])
         /\ last'.notes = << >>
         /\ notified' = notified ]_vars

(* C23 happens: the first endpoint has been handed a second copy of a ping  *)
(* whose first copy had told it of a delivered data packet                  *)
SecondCopyWitness ==
  /\ last.op = "read_raw_packet" /\ last.c = 1 /\ last.ret = "accept"
  /\ used.arg.pkt.type = ping_packet
  /\ [ dg |-> used.arg, left |-> ReceiveState(conn[1]) ] \in used.seen
  /\ used.dups > 0
  /\ \E i \in 1..Len(notified[1]) : notified[1][i][2]
  /\ conn[1].highest_acked_seq = conn[1].last_send_seq
  /\ last.notes = << >>

----------------------------------------------------------------------------
(* More properties of SpecWrap                                              *)

(* C24: between calls the notify queue holds the sequences after            *)
(* highest_acked_seq up to last_send_seq, oldest first, and handle_notify   *)
(* never finds it empty                                                     *)
QueueHoldsOutstanding ==
  \A c \in Peers :
    /\ conn[c].crashed # "assert_note"
    /\ conn[c].crashed = "no"
       => conn[c].notify_queue
            = [ i \in 1..(conn[c].last_send_seq - conn[c].highest_acked_seq)
                  |-> conn[c].highest_acked_seq + i ]

----------------------------------------------------------------------------
(* More properties of SpecSeen                                              *)

(* the notifications the header of datagram m asks of its receiver          *)
NotifyCount(m) ==
  ReconstructAck(m.pkt.ack, conn[m.to].highest_acked_seq)
    - conn[m.to].highest_acked_seq

(* C25: a datagram that passes the tests of read_packet_header carries a    *)
(* bit for every notification it causes, all in the first word, so no       *)
(* delivered flag is read from bits that were not sent; and an endpoint's   *)
(* last_recv_ack_ack is never beyond its peer's highest_acked_seq           *)
BitmapCoversNotifications ==
  /\ [](\A c \in Peers :
          (conn[c].crashed = "no" /\ conn[Other(c)].crashed = "no")
          => conn[Other(c)].highest_acked_seq - conn[c].last_recv_ack_ack
               \in 0..max_packet_window_size)
  /\ [][ /\ last'.op = "read_raw_packet"
         /\ RejectReason(conn[used'.arg.to], used'.arg.pkt) = "accept"
         => /\ NotifyCount(used'.arg) \in 0..(8 * used'.arg.pkt.abc)
            /\ NotifyCount(used'.arg) <= max_packet_window_size ]_vars

----------------------------------------------------------------------------
(* SpecAhead: the endpoints and the wire of SpecSeen when the first         *)
(* endpoint has already sent a window of data packets, or one less, and     *)
(* the wire has lost them all; the sequences start away from 2^32 or cross  *)
(* it.                                                                      *)

AheadInit ==
  \E s \in { 100, -20 }, k \in { max_packet_window_size - 3, max_packet_window_size - 2 } :
    /\ conn = [ c \in Peers |->
                IF c = 1 THEN AfterSends(Established(s, 500, TRUE, FALSE, 1, 1), k, 1)
                         ELSE Established(500, s, TRUE, FALSE, 1, 1) ]
    /\ net = {}
    /\ now = 1
    /\ notified = [ c \in Peers |-> << >> ]
    /\ received = [ c \in Peers |-> << >> ]
    /\ sent = [ c \in Peers |->
                IF c = 1 THEN SentBy(Established(s, 500, TRUE, FALSE, 1, 1), k)
                         ELSE << >> ]
    /\ ka = [ c \in Peers |-> KaIdle ]
    /\ last = NoOp
    /\ used = [ sends |-> 0, dups |-> 0, seen |-> {}, arg |-> [ to |-> 0 ] ]
    /\ build = [ traps |-> TRUE ]

SpecAhead == AheadInit /\ [][SeenNext]_vars

(* C26: an endpoint's last_send_seq is never more than 31 beyond its        *)
(* peer's last_seq_recvd, and a datagram that carries the sender's latest   *)
(* sequence is never dropped as outside the window                          *)
SenderWithinWindow ==
  /\ [](\A c \in Peers :
          (conn[c].crashed = "no" /\ conn[Other(c)].crashed = "no")
          => conn[c].last_send_seq - conn[Other(c)].last_seq_recvd
               \in 0..(max_packet_window_size - 1))
  /\ [][ /\ last'.op = "read_raw_packet"
         /\ used'.arg.pkt.seq
              = LowBits(conn[Other(used'.arg.to)].last_send_seq, sequence_number_bit_size)
         => last'.ret # "seq_window" ]_vars

(* C26 happens: the second endpoint, having seen none of 29 data packets,   *)
(* has accepted the 30th and handed its payload on                          *)
LatestAfterLossesWitness ==
  /\ last.op = "read_raw_packet" /\ last.c = 2 /\ last.ret = "accept" /\ last.val
  /\ received[2] = << conn[1].last_send_seq >>
  /\ conn[1].last_send_seq - conn[1].initial_send_seq = max_packet_window_size - 2
  /\ conn[2].last_seq_recvd = conn[1].last_send_seq

----------------------------------------------------------------------------
(* SpecSlot: one connection that sends data between the headers it is       *)
(* handed, from an empty and from a full window; used.at keeps, for each    *)
(* data sequence, the last_seq_recvd the connection had when it sent it.    *)

MaxSlotSends == 3

SlotInit ==
  \E k \in { 0, max_packet_window_size - 2 } :
    /\ conn = [ c \in Peers |->
                IF c = 1 THEN AfterSends(Established(100, 500, TRUE, FALSE, 1, 2), k, 1)
                         ELSE Established(500, 100, TRUE, FALSE, 1, 2) ]
    /\ net = {}
    /\ now = 1
    /\ notified = [ c \in Peers |-> << >> ]
    /\ received = [ c \in Peers |-> << >> ]
    /\ sent = [ c \in Peers |->
                IF c = 1 THEN SentBy(Established(100, 500, TRUE, FALSE, 1, 2), k)
                         ELSE << >> ]
    /\ ka = [ c \in Peers |-> KaIdle ]
    /\ last = NoOp
    /\ used = [ sends |-> 0, reads |-> 0, at |-> [ n \in 101..(100 + k) |-> 500 ] ]
    /\ build = [ traps |-> TRUE ]

SlotSend ==
  /\ used.sends < MaxSlotSends
  /\ CheckPacketSend(1, TRUE, TRUE)
  /\ used' = [ sends |-> used.sends + 1,
               reads |-> used.reads,
               at |-> IF last'.ret = "sent"
                        THEN (conn'[1].last_send_seq :> conn[1].last_seq_recvd) @@ used.at
                        ELSE used.at ]
  /\ UNCHANGED <<net, now, build>>

SlotRead ==
  /\ used.reads < MaxReads
  /\ \E p \in Headers(conn[1]) :
       \E unwritten \in Unwritten(conn[1], p) : ReadRawPacket(1, p, unwritten)
  /\ used' = [used EXCEPT !.reads = @ + 1]
  /\ UNCHANGED <<net, now, build>>

SlotNext == SlotSend \/ SlotRead

SpecSlot == SlotInit /\ [][SlotNext]_vars

(* C27: the slot of every sequence still in the notify queue holds the      *)
(* last_seq_recvd recorded when that sequence was sent, and it still does   *)
(* when the sequence is notified as delivered: the last_recv_ack_ack taken  *)
(* from it is that value, unless the clamp has raised it                    *)
SlotKeptUntilNotified ==
  /\ [](conn[1].crashed = "no"
          => \A i \in 1..Len(conn[1].notify_queue) :
               conn[1].last_seq_recvd_at_send[
                   LowBits(conn[1].notify_queue[i], max_packet_window_size_shift)]
                 = used.at[conn[1].notify_queue[i]])
  /\ [][ last'.op = "read_raw_packet" /\ last'.ret = "accept"
         => \A j \in 1..Len(last'.notes) :
              last'.notes[j][2]
              => /\ conn[1].last_seq_recvd_at_send[
                        LowBits(last'.notes[j][1], max_packet_window_size_shift)]
                      = used.at[last'.notes[j][1]]
                 /\ (\A i \in (j + 1)..Len(last'.notes) : ~last'.notes[i][2])
                    => conn'[1].last_recv_ack_ack
                         = ClampAckAck(used.at[last'.notes[j][1]],
                                       conn'[1].last_seq_recvd) ]_vars

(* C27 happens: a data packet sent after last_seq_recvd had moved has been  *)
(* notified as delivered and last_recv_ack_ack is the value recorded then   *)
SlotReadBackWitness ==
  /\ last.op = "read_raw_packet" /\ last.ret = "accept"
  /\ \E j \in 1..Len(last.notes) :
       /\ last.notes[j][2]
       /\ used.at[last.notes[j][1]] > conn[1].initial_recv_seq
       /\ conn[1].last_recv_ack_ack = used.at[last.notes[j][1]]

----------------------------------------------------------------------------
(* SpecStorm: two endpoints over a wire that loses nothing and keeps the    *)
(* order of each direction.  Each application sends a burst of data, the    *)
(* wire then delivers; no check_timeout interval passes, so no ping is      *)
(* sent.  used.arg is the datagram delivered last.                          *)

MaxStormData == 17

StormInit ==
  /\ conn = [ c \in Peers |->
              Established(IF c = 1 THEN 100 ELSE 500, IF c = 1 THEN 500 ELSE 100,
                          TRUE, FALSE, 1, 1) ]
  /\ net = {}
  /\ now = 1
  /\ notified = [ c \in Peers |-> << >> ]
  /\ received = [ c \in Peers |-> << >> ]
  /\ sent = [ c \in Peers |-> << >> ]
  /\ ka = [ c \in Peers |-> KaIdle ]
  /\ last = NoOp
  /\ used = [ sends |-> [ c \in Peers |-> 0 ], delivering |-> FALSE,
              arg |-> [ to |-> 0 ] ]
  /\ build = [ traps |-> TRUE ]

StormSend(c) ==
  /\ ~used.delivering
  /\ used.sends[c] < MaxStormData
  /\ CheckPacketSend(c, TRUE, TRUE)
  /\ net' = net \cup Outgoing(c, last'.out)
  /\ used' = [used EXCEPT !.sends[c] = @ + 1]
  /\ UNCHANGED <<now, build>>

(* m was handed to send_packet before every other datagram to the same      *)
(* endpoint: an ack packet carries the sequence of the last data packet     *)
Oldest(m) ==
  \A o \in net :
    (o.to = m.to /\ o # m)
    => \/ m.pkt.seq < o.pkt.seq
       \/ m.pkt.seq = o.pkt.seq
            /\ (m.pkt.type = data_packet \/ o.pkt.type # data_packet)

StormDeliver(m) ==
  /\ m \in net
  /\ Oldest(m)
  /\ \E unwritten \in Unwritten(conn[m.to], m.pkt) :
       ReadRawPacket(m.to, m.pkt, unwritten)
  /\ net' = (net \ {m}) \cup Outgoing(m.to, last'.out)
  /\ used' = [used EXCEPT !.delivering = TRUE, !.arg = m]
  /\ UNCHANGED <<now, build>>

StormNext ==
  \/ \E c \in Peers : StormSend(c)
  \/ \E m \in net : StormDeliver(m)

SpecStorm == StormInit /\ [][StormNext]_vars

(* a step of StormDeliver, told by what it leaves in used: it is enabled    *)
(* whenever a datagram is in flight, and used.arg names the datagram        *)
Delivery ==
  \E m \in net : used' = [used EXCEPT !.delivering = TRUE, !.arg = m]

(* the wire loses nothing: while datagrams are in flight one is delivered   *)
FairStorm == SpecStorm /\ WF_used(Delivery)

(* C28: once the applications have stopped sending, the wire delivers only  *)
(* finitely many datagrams: the endpoints stop answering each other's ack   *)
(* packets                                                                  *)
AckPacketsDieOut ==
  <>[][ last'.op # "read_raw_packet" ]_vars

----------------------------------------------------------------------------
(* SpecClamp: one connection with data outstanding that is handed three     *)
(* headers, enough for the peer's sequence to run more than a window ahead  *)
(* of last_recv_ack_ack before a notification comes; used.before keeps the  *)
(* last_recv_ack_ack the connection had when read_raw_packet was called.    *)

MaxClampReads == 3

ClampInit ==
  \E k \in { 2, max_packet_window_size - 2 } :
    /\ conn = [ c \in Peers |->
                IF c = 1 THEN AfterSends(Established(100, 500, TRUE, FALSE, 1, 2), k, 1)
                         ELSE Established(500, 100, TRUE, FALSE, 1, 2) ]
    /\ net = {}
    /\ now = 1
    /\ notified = [ c \in Peers |-> << >> ]
    /\ received = [ c \in Peers |-> << >> ]
    /\ sent = [ c \in Peers |->
                IF c = 1 THEN SentBy(Established(100, 500, TRUE, FALSE, 1, 2), k)
                         ELSE << >> ]
    /\ ka = [ c \in Peers |-> KaIdle ]
    /\ last = NoOp
    /\ used = [ sends |-> 0, reads |-> 0, before |-> 500,
                at |-> [ n \in 101..(100 + k) |-> 500 ] ]
    /\ build = [ traps |-> TRUE ]

ClampSend ==
  /\ used.sends < MaxSend
  /\ CheckPacketSend(1, TRUE, TRUE)
  /\ used' = [used EXCEPT
                !.sends = @ + 1,
                !.at = IF last'.ret = "sent"
                         THEN (conn'[1].last_send_seq :> conn[1].last_seq_recvd) @@ @
                         ELSE @]
  /\ UNCHANGED <<net, now, build>>

ClampRead ==
  /\ used.reads < MaxClampReads
  /\ \E p \in Headers(conn[1]) :
       \E unwritten \in Unwritten(conn[1], p) : ReadRawPacket(1, p, unwritten)
  /\ used' = [used EXCEPT !.reads = @ + 1, !.before = conn[1].last_recv_ack_ack]
  /\ UNCHANGED <<net, now, build>>

ClampNext == ClampSend \/ ClampRead

SpecClamp == ClampInit /\ [][ClampNext]_vars

(* C29: last_recv_ack_ack never decreases: no step moves it back, only      *)
(* read_raw_packet moves it, and an accepted header leaves it at or above   *)
(* both the value found and the peer's sequence less the window             *)
AckAckNeverDecreases ==
  [][ /\ conn'[1].last_recv_ack_ack - conn[1].last_recv_ack_ack >= 0
      /\ last'.op # "read_raw_packet"
         => conn'[1].last_recv_ack_ack = conn[1].last_recv_ack_ack
      /\ last'.op = "read_raw_packet" /\ last'.ret = "accept"
         => conn'[1].last_seq_recvd - conn'[1].last_recv_ack_ack
              \in 0..max_packet_window_size ]_vars

(* C29 happens: a notification of a delivered packet assigned a slot value  *)
(* below the last_recv_ack_ack an earlier clamp had established, and the    *)
(* call ended with last_recv_ack_ack above that earlier value               *)
SlotBelowClampWitness ==
  /\ last.op = "read_raw_packet" /\ last.ret = "accept"
  /\ conn[1].crashed = "no"
  /\ used.before > conn[1].initial_recv_seq
  /\ \E j \in 1..Len(last.notes) :
       /\ last.notes[j][2]
       /\ used.at[last.notes[j][1]] < used.before
  /\ conn[1].last_recv_ack_ack > used.before

----------------------------------------------------------------------------
(* More properties of SpecAhead: the sender that starts 20 below 2^32 has   *)
(* 29 or 30 packets outstanding, so its last_send_seq has wrapped and its   *)
(* highest_acked_seq has not.                                               *)

(* window_full answers by the number of packets sent and not yet notified   *)
WindowFullCountsOutstanding ==
  \A c \in Peers :
    conn[c].crashed = "no"
    => (window_full(conn[c])
          <=> Len(sent[c]) - Len(notified[c]) >= max_packet_window_size - 2)

(* the header acknowledges a sequence from highest_acked_seq to             *)
(* last_send_seq, counted modulo 2^32                                       *)
AcksOutstandingRange(cn, p) ==
  ReconstructAck(p.ack, cn.highest_acked_seq) - cn.highest_acked_seq
    \in 0..(cn.last_send_seq - cn.highest_acked_seq)

(* C30: the sequence arithmetic is right modulo 2^32: window_full reports   *)
(* the true outstanding count on both sides of the wrap, and a packet of    *)
(* the peer that acknowledges a sequence of the outstanding range passes    *)
(* the test of line 407 and moves highest_acked_seq to it                   *)
SequenceArithmeticWrapSafe ==
  /\ []WindowFullCountsOutstanding
  /\ [][ last'.op = "read_raw_packet"
           /\ conn[last'.c].crashed = "no"
           /\ AcksOutstandingRange(conn[last'.c], used'.arg.pkt)
         => /\ last'.ret # "ack_window"
            /\ last'.ret = "accept"
               => conn'[last'.c].highest_acked_seq
                    = ReconstructAck(used'.arg.pkt.ack, conn[last'.c].highest_acked_seq) ]_vars

====
